---------------------------- MODULE Spec2Model ----------------------------
(***************************************************************************)
(* Payment-intent reconciliation and order materialization of the          *)
(* roots-and-richness backend: routes/payments.js (the revision that       *)
(* calls services/orderService.js), services/orderService.js,              *)
(* utils/couponRules.js and the PaymentIntent, Order and Product models.   *)
(*                                                                         *)
(* Every HTTP handler is an async function: it runs atomically between two *)
(* awaits, and requests interleave at the awaits.  A request in flight is  *)
(* a slot of procs holding its position (pc) and its locals, among them    *)
(* the Mongoose documents it loaded.  A loaded document is a private copy; *)
(* save() writes back only the paths the handler modified (assigning the   *)
(* value a path already has does not modify it, and push() is sent as an   *)
(* append).  Money is in whole rupees; totalPaise is rupees * 100.         *)
(*                                                                         *)
(* The Order collection holds the fields the handlers write and query      *)
(* (orderId, merchantOrderId, intentId, ...).  An insert is refused when   *)
(* it breaks the unique index on orderId and may be refused for any other  *)
(* reason (schema validation, storage error).                              *)
(*                                                                         *)
(* The payment gateway is the environment: it holds the transactions       *)
(* create-order sent to it, a transaction is PENDING until the customer,   *)
(* who got the redirect URL, pays or fails to, and webhooks and the status *)
(* API report the state of the transaction.                                *)
(*                                                                         *)
(* Spec runs NProcs requests concurrently with a gateway that answers;     *)
(* SpecSerial runs one request at a time with every answer and every       *)
(* malformed or unauthorized webhook; SpecPrice adds catalog price changes *)
(* and the Razorpay routes to create-order; SpecIntent runs the two        *)
(* intent-creation routes over carts, coupon codes, times and addresses;   *)
(* SpecCoupon runs the coupon routes with overlapping apply requests;      *)
(* SpecStatus adds the admin status route of routes/orders.js to           *)
(* SpecSerial; SpecCancel runs order placement, delivery and overlapping   *)
(* cancel requests of routes/orders.js.                                    *)
(***************************************************************************)
EXTENDS Integers, Sequences, FiniteSets, TLC

VARIABLES
    products,   \* Product collection: productId -> document
    intents,    \* PaymentIntent collection: intentId -> document or NoIntent
    orders,     \* Order collection: sequence of documents, the index is _id
    procs,      \* requests in flight: slot -> pc and locals
    clock,      \* Date.now() as used in merchantOrderId, strictly increasing
    served,     \* number of requests the slots have taken so far
    gateway,    \* transactions the payment gateway was asked to create, with their state
    lastTotals, \* result of the latest totals computation at intent creation
    coupons,    \* Coupon collection: code -> document or NoCoupon
    applies     \* coupon apply requests in flight: slot -> pc and locals

vars == <<products, intents, orders, procs, clock, served, gateway, lastTotals,
          coupons, applies>>

stores == <<products, intents, orders>>

----------------------------------------------------------------------------
(* Bounds of the model *)

MaxIntents == 1       \* PaymentIntents created in one behaviour
NProcs == 2           \* requests in flight at the same time
MaxQty == 2           \* largest quantity of an order line
MaxClock == 2         \* merchantOrderIds generated in one behaviour
MaxOrders == 2        \* Orders inserted in one behaviour
InitStock == 1        \* stock of every variant and product at the start
MaxItems == 1         \* order lines of a cart
MaxRequests == 4      \* requests the slots take in one behaviour
MaxUsageLimit == 2    \* largest usageLimit of a coupon
MaxUserLimit == 2     \* largest userLimit of a coupon
MaxUsers == 2         \* users that apply coupons

(* Program constants *)

FreeShippingAbove == 499
FlatShippingFee == 99
DefaultTax == 0

NoNumber == -1        \* a numeric path that is undefined in the document
NoId == 0             \* null merchantOrderId, absent variant selector

ProductIds == {1, 2}
VariantIds == {1, 2}
IntentIds == 1..MaxIntents
Procs == 1..NProcs

NoIntent == [status |-> "absent"]

----------------------------------------------------------------------------
(* utils/couponRules.js.  Dates are YYYYMMDD * 10 (midnight UTC); an      *)
(* instant later the same day is that number + 1.                          *)

COUPON_RULES ==
    << [code |-> "FLAT100",  type |-> "flat",    value |-> 100,
        minOrderValue |-> 499, expiryDate |-> 202509300, isActive |-> TRUE],
       [code |-> "FIRST5",   type |-> "percent", value |-> 5,
        minOrderValue |-> 299, expiryDate |-> 202512180, isActive |-> TRUE],
       [code |-> "FREESHIP", type |-> "flat",    value |-> 75,
        minOrderValue |-> 699, expiryDate |-> 202505150, isActive |-> TRUE] >>

\* String.prototype.toUpperCase on the coupon codes a request may carry
ToUpperCase(s) ==
    CASE s = "flat100" -> "FLAT100"
      [] s = "first5"  -> "FIRST5"
      [] s = "save10"  -> "SAVE10"
      [] OTHER         -> s

Min(a, b) == IF a <= b THEN a ELSE b
Max(a, b) == IF a >= b THEN a ELSE b

\* COUPON_RULES.find(c => c.code.toUpperCase() === couponToApply.toUpperCase())
FindCoupon(code) ==
    LET hits == {i \in 1..Len(COUPON_RULES) :
                    ToUpperCase(COUPON_RULES[i].code) = ToUpperCase(code)}
    IN  IF hits = {} THEN 0 ELSE CHOOSE i \in hits : \A j \in hits : i <= j

\* A discount that ignores the rule's minimum order value
RawDiscountWithoutMinimum(code, subtotal, now) ==
    IF code = "" THEN 0
    ELSE LET i == FindCoupon(code) IN
         IF i = 0 THEN 0
         ELSE LET coupon == COUPON_RULES[i] IN
              IF ~coupon.isActive \/ coupon.expiryDate < now THEN 0
              ELSE IF coupon.type = "percent" THEN (subtotal * coupon.value) \div 100
              ELSE coupon.value

\* The discount before the clamp: 0 unless the rule is known, active, not
\* expired and the subtotal reaches its minimum.
RawDiscount(code, subtotal, now) ==
    IF code = "" THEN 0
    ELSE LET i == FindCoupon(code) IN
         IF i = 0 THEN 0
         ELSE LET coupon == COUPON_RULES[i]
                  notExpired == coupon.expiryDate >= now
                  meetsMinValue == subtotal >= coupon.minOrderValue
              IN  IF ~coupon.isActive THEN 0
                  ELSE IF ~(notExpired /\ meetsMinValue) THEN 0
                  ELSE IF coupon.type = "percent"
                       THEN (subtotal * coupon.value) \div 100
                  ELSE IF coupon.type = "flat" THEN coupon.value
                  ELSE 0

\* discountAmount = Math.min(discountAmount, subtotal)
ApplyCoupon(code, subtotal, now) == Min(RawDiscount(code, subtotal, now), subtotal)

----------------------------------------------------------------------------
(* computeTotalsFromDb *)

\* An order line as the client sends it: productId, quantity, the variant
\* selector `variant` (a size or a variant _id) and `variantId`.
Item(pid, v, vid, q) == [productId |-> pid, variant |-> v, variantId |-> vid, quantity |-> q]

\* One line of computeTotalsFromDb: the price and the stock it resolves to.
ResolveLine(prods, item) ==
    IF item.productId \notin DOMAIN prods
    THEN [err |-> "ProductNotFound", unitPrice |-> 0, stockAvailable |-> 0]
    ELSE LET product == prods[item.productId] IN
         IF item.variant = NoId
         THEN [err |-> "none", unitPrice |-> product.price,
               stockAvailable |-> product.stock]
         ELSE IF item.variant \notin DOMAIN product.variants
         THEN [err |-> "VariantNotFound", unitPrice |-> 0, stockAvailable |-> 0]
         ELSE [err |-> "none", unitPrice |-> product.variants[item.variant].price,
               stockAvailable |-> product.variants[item.variant].stock]

\* A line check that does not look at the stock
LineErrorWithoutStock(prods, item) == ResolveLine(prods, item).err

LineError(prods, item) ==
    LET r == ResolveLine(prods, item) IN
    IF r.err # "none" THEN r.err
    ELSE IF r.stockAvailable < item.quantity THEN "InsufficientStock"
    ELSE "none"

RECURSIVE FirstError(_, _, _)
FirstError(prods, items, i) ==
    IF i > Len(items) THEN "none"
    ELSE IF LineError(prods, items[i]) # "none" THEN LineError(prods, items[i])
    ELSE FirstError(prods, items, i + 1)

RECURSIVE SumLines(_, _, _)
SumLines(prods, items, i) ==
    IF i > Len(items) THEN 0
    ELSE ResolveLine(prods, items[i]).unitPrice * items[i].quantity
         + SumLines(prods, items, i + 1)

\* A policy that ships free from the threshold on
ShippingFeeFromThreshold(subtotal) ==
    IF subtotal >= FreeShippingAbove THEN 0 ELSE FlatShippingFee

\* const shippingFee = subtotal > 499 ? 0 : 99
ShippingFeeFor(subtotal) == IF subtotal > FreeShippingAbove THEN 0 ELSE FlatShippingFee

ComputeTotalsFromDb(prods, items) ==
    LET err == FirstError(prods, items, 1)
        subtotal == SumLines(prods, items, 1)
        shippingFee == ShippingFeeFor(subtotal)
        total == subtotal + shippingFee + DefaultTax
    IN  IF err # "none"
        THEN [err |-> err, subtotal |-> 0, shippingFee |-> 0, tax |-> 0,
              total |-> 0, totalPaise |-> 0]
        ELSE [err |-> "none", subtotal |-> subtotal, shippingFee |-> shippingFee,
              tax |-> DefaultTax, total |-> total, totalPaise |-> total * 100]


----------------------------------------------------------------------------
(* Request data of the intent-creation endpoints *)

AddrFields == {"address", "city", "state", "postalCode", "phone"}
AddrValues == {"", " ", "x"}      \* absent or empty, blank, filled in

\* String.prototype.trim
Trim(s) == IF s = " " THEN "" ELSE s

\* (incomingShipping.f || customerInfo.f || '').trim()
MergeField(s, c) == Trim(IF s # "" THEN s ELSE c)

\* finalShippingAddress of initiate-intent
FinalShippingAddress(ship, cust) == [f \in AddrFields |-> MergeField(ship[f], cust[f])]

\* required.filter(f => !finalShippingAddress[f] || finalShippingAddress[f].trim().length === 0)
MissingFields(addr) == {f \in AddrFields : addr[f] = "" \/ Trim(addr[f]) = ""}

FullAddress == [f \in AddrFields |-> "x"]
EmptyAddress == [f \in AddrFields |-> ""]

\* validateOrderItemsShape: a non-empty array whose lines have a productId
\* and a quantity >= 1
ValidateOrderItemsShape(items) ==
    IF Len(items) = 0 THEN "orderItems must be a non-empty array"
    ELSE IF \E i \in 1..Len(items) : items[i].productId = NoId
         THEN "Each order item must include productId"
    ELSE IF \E i \in 1..Len(items) : items[i].quantity < 1
         THEN "Each order item must include a valid quantity (>=1)"
    ELSE "ok"

\* intentId: `pi_${nanoid(12)}`, a fresh id: the first free slot
FreeIntentIds == {i \in IntentIds : intents[i] = NoIntent}
NewIntentId == CHOOSE i \in FreeIntentIds : \A j \in FreeIntentIds : i <= j

NoResponse == [op |-> "none", code |-> 0, error |-> "none", missing |-> {},
               intentId |-> NoId, couponCode |-> "", now |-> 0]

Response(op, code, error, missing, id, coupon, now) ==
    [op |-> op, code |-> code, error |-> error, missing |-> missing,
     intentId |-> id, couponCode |-> coupon, now |-> now]

\* new PaymentIntent({...}) of initiate-intent
NewPhonePeIntent(items, addr, totals, discountAmount, couponCode) ==
    [status |-> "pending",
     merchantOrderId |-> NoId,
     stockAdjusted |-> FALSE,
     orderItems |-> items,
     shippingAddress |-> addr,
     totals |-> [subtotal |-> totals.subtotal, shippingFee |-> totals.shippingFee,
                 tax |-> totals.tax, discountAmount |-> discountAmount,
                 total |-> totals.subtotal + totals.shippingFee - discountAmount,
                 totalPaise |-> (totals.subtotal + totals.shippingFee - discountAmount) * 100],
     attempts |-> << >>,
     couponCode |-> couponCode]

\* POST /phonepe/initiate-intent.  The handler awaits the catalog read and
\* the insert of a document with a fresh id only.
InitiateIntent(items, couponCode, ship, cust, custOk, now) ==
    /\ FreeIntentIds # {}
    /\ LET shape == ValidateOrderItemsShape(items)
           addr == FinalShippingAddress(ship, cust)
           missing == MissingFields(addr)
           dbComputed == ComputeTotalsFromDb(products, items)
           discountAmount == ApplyCoupon(couponCode, dbComputed.subtotal, now)
           totalPaise == (dbComputed.subtotal + dbComputed.shippingFee - discountAmount) * 100
           reply(code, error, miss, id) ==
               Response("initiate-intent", code, error, miss, id, couponCode, now)
       IN  IF shape # "ok"
           THEN /\ lastTotals' = reply(400, "ValidationError", {}, NoId)
                /\ UNCHANGED intents
           ELSE IF ~custOk
           THEN /\ lastTotals' = reply(400, "MissingCustomerInfo", {}, NoId)
                /\ UNCHANGED intents
           ELSE IF missing # {}
           THEN /\ lastTotals' = reply(400, "IncompleteShippingAddress", missing, NoId)
                /\ UNCHANGED intents
           ELSE IF dbComputed.err # "none"
           THEN /\ lastTotals' = reply(500, dbComputed.err, {}, NoId)
                /\ UNCHANGED intents
           ELSE IF totalPaise <= 0
           THEN /\ lastTotals' = reply(400, "InvalidAmount", {}, NoId)
                /\ UNCHANGED intents
           ELSE /\ intents' = [intents EXCEPT ![NewIntentId] =
                        NewPhonePeIntent(items, addr, dbComputed, discountAmount, couponCode)]
                /\ lastTotals' = reply(200, "none", {}, NewIntentId)
    /\ UNCHANGED <<served, products, orders, procs, clock, gateway, coupons, applies>>

\* new PaymentIntent({...}) of razorpay/create-order: the request's
\* shippingAddress as sent, totals without shippingFee and totalPaise
\* (shippingPrice is no path of the schema), status "paid".
NewRazorpayIntent(items, addr, totals, discountAmount) ==
    [status |-> "paid",
     merchantOrderId |-> NoId,
     stockAdjusted |-> FALSE,
     orderItems |-> items,
     shippingAddress |-> addr,
     totals |-> [subtotal |-> totals.subtotal, shippingFee |-> NoNumber,
                 tax |-> totals.tax, discountAmount |-> discountAmount,
                 total |-> totals.subtotal + totals.shippingFee - discountAmount,
                 totalPaise |-> NoNumber],
     attempts |-> << >>,
     couponCode |-> ""]

\* POST /razorpay/create-order.  A gateway error and a save that fails on
\* the required customerInfo both end in the handler's catch.
RazorpayCreateOrder(items, couponCode, ship, custOk, now, gatewayOk) ==
    /\ FreeIntentIds # {}
    /\ LET shape == ValidateOrderItemsShape(items)
           computed == ComputeTotalsFromDb(products, items)
           discountAmount == ApplyCoupon(couponCode, computed.subtotal, now)
           totalPaise == (computed.subtotal + computed.shippingFee - discountAmount) * 100
           reply(code, error, id) ==
               Response("razorpay/create-order", code, error, {}, id, couponCode, now)
       IN  IF shape # "ok"
           THEN /\ lastTotals' = reply(400, "ValidationError", NoId)
                /\ UNCHANGED intents
           ELSE IF computed.err # "none"
           THEN /\ lastTotals' = reply(500, computed.err, NoId)
                /\ UNCHANGED intents
           ELSE IF totalPaise <= 0
           THEN /\ lastTotals' = reply(400, "InvalidAmount", NoId)
                /\ UNCHANGED intents
           ELSE IF ~gatewayOk \/ ~custOk
           THEN /\ lastTotals' = reply(500, "Razorpay order creation failed", NoId)
                /\ UNCHANGED intents
           ELSE /\ intents' = [intents EXCEPT ![NewIntentId] =
                        NewRazorpayIntent(items, ship, computed, discountAmount)]
                /\ lastTotals' = reply(200, "none", NewIntentId)
    /\ UNCHANGED <<served, products, orders, procs, clock, gateway, coupons, applies>>


----------------------------------------------------------------------------
(* Requests in flight *)

GatewayStates == {"COMPLETED", "FAILED", "EXPIRED", "CANCELLED", "PENDING"}

NoOrder == [orderId |-> <<"none", 0>>]
NoProduct == [price |-> NoNumber]
NoReply == [code |-> 0, status |-> "none", order |-> 0]

Idle ==
    [pc |-> "idle", kind |-> "none", iid |-> NoId, mo |-> NoId,
     doc |-> NoIntent, dirty |-> {}, push |-> << >>,
     state |-> "none", auth |-> TRUE, adjust |-> FALSE,
     ord |-> 0, odoc |-> NoOrder, ops |-> << >>, fitems |-> << >>,
     idx |-> 0, pid |-> NoId, pdoc |-> NoProduct, pmod |-> "none", vid |-> NoId,
     path |-> "none", loaded |-> "none", loadedMo |-> NoId, body |-> "none",
     res |-> NoReply]

\* res.status(code).json(...): the request ends; only what kind it was, the
\* intent it was about and its answer are kept.
Done(p, code, status) ==
    [Idle EXCEPT !.pc = "done", !.kind = procs[p].kind, !.iid = procs[p].iid,
                 !.auth = procs[p].auth, !.body = procs[p].body,
                 !.res = [code |-> code, status |-> status, order |-> 0]]

\* The same for a request that ends in the step that starts it.
Reject(kind, auth, code, status) ==
    [Idle EXCEPT !.pc = "done", !.kind = kind, !.auth = auth,
                 !.res = [code |-> code, status |-> status, order |-> 0]]

\* A slot takes the next request when it holds none or when the response of
\* the one it held has been sent.
Free(p) == procs[p].pc \in {"idle", "done"} /\ served < MaxRequests

\* doc.path = value on a loaded document: the path is modified only when
\* the value differs from the one the document holds.
SetStatus(pr, value) ==
    IF pr.doc.status = value THEN pr
    ELSE [pr EXCEPT !.doc.status = value, !.dirty = @ \cup {"status"}]

SetMerchantOrderId(pr, value) ==
    IF pr.doc.merchantOrderId = value THEN [pr EXCEPT !.mo = value]
    ELSE [pr EXCEPT !.doc.merchantOrderId = value, !.mo = value,
                    !.dirty = @ \cup {"merchantOrderId"}]

SetStockAdjusted(pr) ==
    IF pr.doc.stockAdjusted THEN pr
    ELSE [pr EXCEPT !.doc.stockAdjusted = TRUE, !.dirty = @ \cup {"stockAdjusted"}]

SetTotals(pr, value) ==
    IF pr.doc.totals = value THEN pr
    ELSE [pr EXCEPT !.doc.totals = value, !.dirty = @ \cup {"totals"}]

\* A save that writes every path of the private copy, modified or not
SavedIntentAllPaths(stored, pr) ==
    [stored EXCEPT
        !.status = pr.doc.status,
        !.merchantOrderId = pr.doc.merchantOrderId,
        !.stockAdjusted = pr.doc.stockAdjusted,
        !.totals = pr.doc.totals,
        !.attempts = @ \o pr.push]

\* A save that writes the whole attempts array of the private copy ($set)
\* instead of the pushed records
SavedIntentWholeArray(stored, pr) ==
    [stored EXCEPT
        !.status = IF "status" \in pr.dirty THEN pr.doc.status ELSE @,
        !.merchantOrderId =
            IF "merchantOrderId" \in pr.dirty THEN pr.doc.merchantOrderId ELSE @,
        !.stockAdjusted =
            IF "stockAdjusted" \in pr.dirty THEN pr.doc.stockAdjusted ELSE @,
        !.totals = IF "totals" \in pr.dirty THEN pr.doc.totals ELSE @,
        !.attempts = IF pr.push # << >> THEN pr.doc.attempts ELSE @]

\* intent.save(): $set of the modified paths and $push of the pushed attempts
SavedIntent(stored, pr) ==
    [stored EXCEPT
        !.status = IF "status" \in pr.dirty THEN pr.doc.status ELSE @,
        !.merchantOrderId =
            IF "merchantOrderId" \in pr.dirty THEN pr.doc.merchantOrderId ELSE @,
        !.stockAdjusted =
            IF "stockAdjusted" \in pr.dirty THEN pr.doc.stockAdjusted ELSE @,
        !.totals = IF "totals" \in pr.dirty THEN pr.doc.totals ELSE @,
        !.attempts = @ \o pr.push]

\* The document after a successful save: nothing is modified any more.
Clean(pr) == [pr EXCEPT !.dirty = {}, !.push = << >>]

SaveIntent(p) == intents' = [intents EXCEPT ![procs[p].iid] = SavedIntent(@, procs[p])]

\* PaymentIntent.findOne({ merchantOrderId })
IntentByMerchantOrderId(mo) ==
    LET hits == {i \in IntentIds : intents[i] # NoIntent /\ intents[i].merchantOrderId = mo}
    IN  IF mo = NoId \/ hits = {} THEN NoId
        ELSE CHOOSE i \in hits : \A j \in hits : i <= j

\* PaymentIntent.findOne({ intentId })
IntentByIntentId(id) ==
    IF id \in IntentIds /\ intents[id] # NoIntent THEN id ELSE NoId

----------------------------------------------------------------------------
(* POST /phonepe/create-order *)

\* findOne, then totals reuse and `mo_${intent.intentId}_${Date.now()}`
CreateOrderStart(p, id) ==
    /\ Free(p)
    /\ clock < MaxClock
    /\ LET found == IntentByIntentId(id)
           pr == [Idle EXCEPT !.kind = "create-order", !.iid = found]
       IN  IF found = NoId
           THEN /\ procs' = [procs EXCEPT ![p] =
                        Reject("create-order", TRUE, 404, "Intent not found")]
                /\ UNCHANGED clock
           ELSE IF intents[found].totals.totalPaise # NoNumber
           THEN /\ clock' = clock + 1
                /\ procs' = [procs EXCEPT ![p] =
                        [SetMerchantOrderId([pr EXCEPT !.doc = intents[found],
                                                     !.loaded = intents[found].status],
                                            clock + 1)
                            EXCEPT !.pc = "co_save_mo"]]
           ELSE /\ procs' = [procs EXCEPT ![p] =
                        [pr EXCEPT !.doc = intents[found], !.pc = "co_totals",
                                   !.loaded = intents[found].status]]
                /\ UNCHANGED clock
    /\ served' = served + 1
    /\ UNCHANGED <<products, intents, orders, gateway, lastTotals, coupons, applies>>

\* The intent holds no totalPaise: computeTotalsFromDb, the coupon of the
\* request or of the intent, and intent.totals = {...}
CreateOrderTotals(p, frontendCouponCode, now) ==
    /\ procs[p].pc = "co_totals"
    /\ LET pr == procs[p]
           dbComputed == ComputeTotalsFromDb(products, pr.doc.orderItems)
           couponToApply == IF frontendCouponCode # "" THEN frontendCouponCode
                            ELSE pr.doc.couponCode
           discountAmount == ApplyCoupon(couponToApply, dbComputed.subtotal, now)
           finalTotal == dbComputed.subtotal + dbComputed.shippingFee - discountAmount
           finalTotals == [subtotal |-> dbComputed.subtotal,
                           shippingFee |-> dbComputed.shippingFee,
                           tax |-> dbComputed.tax, discountAmount |-> discountAmount,
                           total |-> finalTotal, totalPaise |-> finalTotal * 100]
       IN  IF dbComputed.err # "none"
           THEN procs' = [procs EXCEPT ![p] = Done(p, 500, "Payment initiation failed")]
           ELSE procs' = [procs EXCEPT ![p] =
                    [SetTotals(pr, finalTotals) EXCEPT !.pc = "co_save_totals"]]
    /\ UNCHANGED <<served, products, intents, orders, clock, gateway, lastTotals, coupons, applies>>

\* await intent.save() of the totals, then the merchantOrderId
CreateOrderSaveTotals(p) ==
    /\ procs[p].pc = "co_save_totals"
    /\ clock < MaxClock
    /\ SaveIntent(p)
    /\ clock' = clock + 1
    /\ procs' = [procs EXCEPT ![p] =
            [SetMerchantOrderId(Clean(procs[p]), clock + 1) EXCEPT !.pc = "co_save_mo"]]
    /\ UNCHANGED <<served, products, orders, gateway, lastTotals, coupons, applies>>

\* await intent.save() of the merchantOrderId
CreateOrderSaveMo(p) ==
    /\ procs[p].pc = "co_save_mo"
    /\ SaveIntent(p)
    /\ procs' = [procs EXCEPT ![p] = [Clean(procs[p]) EXCEPT !.pc = "co_gateway"]]
    /\ UNCHANGED <<served, products, orders, clock, gateway, lastTotals, coupons, applies>>

\* The attempt record pushed after the gateway answered.  attemptId is
\* `att_${nanoid(8)}`, a fresh id per call: the model takes the number of
\* the call's merchantOrderId for it.
NewAttempt(pr) ==
    [attemptId |-> pr.mo, amountPaise |-> pr.doc.totals.totalPaise,
     status |-> "initiated"]

\* getAuthToken() and axios.post(PAY_URL, payload).  outcome: "ack" (a
\* response with the redirect data), "malformed" (a 2xx response without
\* it), "rejected" (the gateway was reached and answered with an error
\* status, axios throws), "unreachable" (token fetch or network failure).
\* The slot's `state` keeps which kind of response `resp` holds.
CreateOrderGateway(p, outcome) ==
    /\ procs[p].pc = "co_gateway"
    /\ LET pr == procs[p]
           sent == [merchantOrderId |-> pr.mo, amount |-> pr.doc.totals.totalPaise,
                    intentId |-> pr.iid,
                    state |-> IF outcome = "rejected" THEN "REJECTED" ELSE "PENDING"]
       IN  /\ gateway' = IF outcome = "unreachable" THEN gateway ELSE gateway \cup {sent}
           /\ IF outcome \in {"ack", "malformed"}
              THEN procs' = [procs EXCEPT ![p] =
                       [SetStatus([pr EXCEPT !.push = Append(@, NewAttempt(pr)),
                                             !.doc.attempts = Append(@, NewAttempt(pr))],
                                  "initiated")
                           EXCEPT !.pc = "co_save_attempt", !.state = outcome]]
              ELSE procs' = [procs EXCEPT ![p] = Done(p, 500, "Payment initiation failed")]
    /\ UNCHANGED <<served, products, intents, orders, clock, lastTotals, coupons, applies>>

\* await intent.save() of the attempt and of status "initiated"
CreateOrderSaveAttempt(p) ==
    /\ procs[p].pc = "co_save_attempt"
    /\ SaveIntent(p)
    /\ procs' = [procs EXCEPT ![p] = Done(p, 200, "success")]
    /\ UNCHANGED <<served, products, orders, clock, gateway, lastTotals, coupons, applies>>

----------------------------------------------------------------------------
(* POST /razorpay/verify: findOne, the signature check, status = 'paid' *)

RazorpayVerify(id, signatureOk) ==
    /\ IntentByIntentId(id) # NoId
    /\ signatureOk
    /\ intents[id].status # "paid"
    /\ intents' = [intents EXCEPT ![id].status = "paid"]
    /\ UNCHANGED <<served, products, orders, procs, clock, gateway, lastTotals, coupons, applies>>

(* The catalog is edited through the product administration endpoints:    *)
(* the price of a product or of one of its variants changes.               *)
AdminSetPrice(pid, vid, price) ==
    /\ pid \in DOMAIN products
    /\ IF vid = NoId
       THEN /\ products[pid].price # price
            /\ products' = [products EXCEPT ![pid].price = price]
       ELSE /\ vid \in DOMAIN products[pid].variants
            /\ products[pid].variants[vid].price # price
            /\ products' = [products EXCEPT ![pid].variants[vid].price = price]
    /\ UNCHANGED <<served, intents, orders, procs, clock, gateway, lastTotals, coupons, applies>>


----------------------------------------------------------------------------
(* PUT /api/orders/:id/status *)

\* enum of orderSchema.status
OrderStatuses == {"pending", "processing", "shipped", "delivered", "cancelled"}

\* protect, admin; Order.findById; order.status = status; the shipping
\* details and the email of a shipped order are fetched and sent inside a
\* try/catch; await order.save() validates the status against the enum.
\* The request is answered with 200, or with 401/403, 404, 500 and the
\* order unchanged.
UpdateStatus(k, status, isAdmin) ==
    /\ k \in 1..Len(orders)
    /\ isAdmin
    /\ status \in OrderStatuses
    /\ orders[k].status # status
    /\ orders' = [orders EXCEPT ![k].status = status]
    /\ UNCHANGED <<served, products, intents, procs, clock, gateway, lastTotals, coupons, applies>>

----------------------------------------------------------------------------
(* The Order and Product collections *)

OrderIds == 1..Len(orders)

\* Order.findOne(filter): the first document that matches, 0 when none does
FirstOrder(hits) == IF hits = {} THEN 0 ELSE CHOOSE i \in hits : \A j \in hits : i <= j

\* Order.findOne({ orderId })
OrderByOrderId(orderId) == FirstOrder({i \in OrderIds : orders[i].orderId = orderId})

\* The unique index on orderId
DuplicateKey(orderId) == \E i \in OrderIds : orders[i].orderId = orderId

\* makePublicOrderId(): `PHNPE_${nanoidShort()}`, an id no order holds
PublicOrderId ==
    LET used == {orders[i].orderId[2] : i \in {j \in OrderIds : orders[j].orderId[1] = "PHNPE"}}
    IN  <<"PHNPE", CHOOSE n \in 1..(Len(orders) + 1) : n \notin used>>

\* /^PHNPE_/.test(orderId)
IsPublicOrderId(orderId) == orderId[1] = "PHNPE"

\* An order line of the Order the webhook and the callback insert: the
\* intent's line as the client sent it (productId, variant, variantId,
\* quantity); it has no product and no price path.
RawOrderItem(item) ==
    [product |-> NoId, variant |-> item.variant, variantId |-> item.variantId,
     quantity |-> item.quantity, price |-> NoNumber]

RawOrderItems(items) == [i \in 1..Len(items) |-> RawOrderItem(items[i])]

\* new Order({ orderId: merchantOrderId, ..., intentId }) of the webhook
\* and of the callback
GatewayOrder(mo, iid, doc) ==
    [orderId |-> <<"mo", mo>>, merchantOrderId |-> NoId, intentId |-> iid,
     status |-> "pending", isPaid |-> FALSE,
     orderItems |-> RawOrderItems(doc.orderItems),
     totalPrice |-> doc.totals.total,
     shipping |-> "none", emailSent |-> FALSE]

\* Math.max(0, (stock || 0) - quantity)
ClampedDecrement(stock, quantity) == Max(0, stock - quantity)

\* stock -= quantity
PlainDecrement(stock, quantity) == stock - quantity

\* min: [0, 'Stock cannot be negative'] on the modified stock path
StockValid(stock) == stock >= 0

\* product.save(): $set of the modified stock path
SavedProduct(stored, pr) ==
    IF pr.pmod = "stock" THEN [stored EXCEPT !.stock = pr.pdoc.stock]
    ELSE IF pr.pmod = "variant"
    THEN [stored EXCEPT !.variants[pr.vid].stock = pr.pdoc.variants[pr.vid].stock]
    ELSE stored

\* The stock path the handler modified on its copy of the product
ModifiedStock(pr) ==
    IF pr.pmod = "stock" THEN pr.pdoc.stock
    ELSE IF pr.pmod = "variant" THEN pr.pdoc.variants[pr.vid].stock
    ELSE 0

\* `for (let item of intent.orderItems)`: the next line whose product
\* exists, 0 when the loop is over (`if (!product) continue`)
RECURSIVE NextLine(_, _)
NextLine(pr, i) ==
    IF i > Len(pr.doc.orderItems) THEN 0
    ELSE IF pr.doc.orderItems[i].productId \in DOMAIN products THEN i
    ELSE NextLine(pr, i + 1)

\* The decrement of the webhook (floored) or of the callback (plain)
Decrement(floored, stock, quantity) ==
    IF floored THEN ClampedDecrement(stock, quantity)
    ELSE PlainDecrement(stock, quantity)

\* Product.findById and the decrement on the handler's copy
LoadLine(pr, i, floored) ==
    LET item == pr.doc.orderItems[i]
        product == products[item.productId]
        base == [pr EXCEPT !.idx = i, !.pid = item.productId, !.pdoc = product,
                           !.pmod = "none", !.vid = NoId]
    IN  IF item.variantId # NoId
        THEN IF item.variantId \in DOMAIN product.variants
             THEN [base EXCEPT !.pmod = "variant", !.vid = item.variantId,
                               !.pdoc.variants[item.variantId].stock =
                                   Decrement(floored, @, item.quantity)]
             ELSE base
        ELSE [base EXCEPT !.pmod = "stock",
                          !.pdoc.stock = Decrement(floored, @, item.quantity)]

----------------------------------------------------------------------------
(* webhookHandler *)

\* A request whose Authorization header is the expected `SHA256(hash)`
AlwaysAuthorized(headerMatches) == TRUE

\* !(!authHeader || authHeader !== expectedHeader)
Authorized(headerMatches) == headerMatches

\* From the raw body to PaymentIntent.findOne({ merchantOrderId }) and the
\* assignment of the status the payload reports.
WebhookStart(p, bodyEmpty, authOk, jsonOk, mo, state) ==
    /\ Free(p)
    /\ LET found == IntentByMerchantOrderId(mo)
           end(code, status) ==
               [Reject("webhook", authOk, code, status)
                   EXCEPT !.body = IF bodyEmpty THEN "empty" ELSE "present"]
           pr == [Idle EXCEPT !.kind = "webhook", !.iid = found, !.mo = mo,
                              !.state = state, !.auth = authOk, !.body = "present",
                              !.doc = intents[found],
                              !.loaded = intents[found].status]
       IN  IF bodyEmpty THEN procs' = [procs EXCEPT ![p] = end(400, "Empty body")]
           ELSE IF ~Authorized(authOk)
           THEN procs' = [procs EXCEPT ![p] = end(401, "Unauthorized")]
           ELSE IF ~jsonOk THEN procs' = [procs EXCEPT ![p] = end(400, "Invalid JSON")]
           ELSE IF mo = NoId
           THEN procs' = [procs EXCEPT ![p] = end(400, "Missing merchantOrderId")]
           ELSE IF found = NoId
           THEN procs' = [procs EXCEPT ![p] = end(200, "Intent not found")]
           ELSE IF state = "COMPLETED"
           THEN procs' = [procs EXCEPT ![p] =
                    [SetStatus(pr, "paid") EXCEPT !.pc = "wh_save_paid"]]
           ELSE procs' = [procs EXCEPT ![p] =
                    [SetStatus(pr, IF state \in {"FAILED", "EXPIRED"} THEN "failed"
                                   ELSE pr.doc.status)
                        EXCEPT !.pc = "wh_save_other"]]
    /\ served' = served + 1
    /\ UNCHANGED <<products, intents, orders, clock, gateway, lastTotals, coupons, applies>>

\* await intent.save() on the COMPLETED path
WebhookSavePaid(p) ==
    /\ procs[p].pc = "wh_save_paid"
    /\ SaveIntent(p)
    /\ procs' = [procs EXCEPT ![p] = [Clean(procs[p]) EXCEPT !.pc = "wh_find_order"]]
    /\ UNCHANGED <<served, products, orders, clock, gateway, lastTotals, coupons, applies>>

\* await intent.save() on the other path, then 200
WebhookSaveOther(p) ==
    /\ procs[p].pc = "wh_save_other"
    /\ SaveIntent(p)
    /\ procs' = [procs EXCEPT ![p] = Done(p, 200, "success")]
    /\ UNCHANGED <<served, products, orders, clock, gateway, lastTotals, coupons, applies>>

\* const existingOrder = await Order.findOne({ orderId: merchantOrderId })
WebhookFindOrder(p) ==
    /\ procs[p].pc = "wh_find_order"
    /\ IF OrderByOrderId(<<"mo", procs[p].mo>>) # 0
       THEN procs' = [procs EXCEPT ![p] = Done(p, 200, "success")]
       ELSE procs' = [procs EXCEPT ![p].pc = "wh_insert"]
    /\ UNCHANGED <<served, products, intents, orders, clock, gateway, lastTotals, coupons, applies>>

\* await newOrder.save(); a refused insert throws and the handler answers 500
WebhookInsert(p, accepted) ==
    /\ procs[p].pc = "wh_insert"
    /\ LET pr == procs[p]
           newOrder == GatewayOrder(pr.mo, pr.iid, pr.doc)
           first == NextLine(pr, 1)
       IN  IF accepted /\ ~DuplicateKey(newOrder.orderId)
           THEN /\ Len(orders) < MaxOrders
                /\ orders' = Append(orders, newOrder)
                /\ IF first = 0
                   THEN procs' = [procs EXCEPT ![p] = Done(p, 200, "success")]
                   ELSE procs' = [procs EXCEPT ![p] =
                            [pr EXCEPT !.pc = "wh_load", !.idx = first]]
           ELSE /\ procs' = [procs EXCEPT ![p] = Done(p, 500, "Server error")]
                /\ UNCHANGED orders
    /\ UNCHANGED <<served, products, intents, clock, gateway, lastTotals, coupons, applies>>

\* Product.findById and the clamped decrement on the copy; a line without
\* variantId also sets intent.stockAdjusted
WebhookLoadProduct(p) ==
    /\ procs[p].pc = "wh_load"
    /\ LET pr == LoadLine(procs[p], procs[p].idx, TRUE) IN
       IF pr.pmod = "stock"
       THEN procs' = [procs EXCEPT ![p] = [SetStockAdjusted(pr) EXCEPT !.pc = "wh_save_flag"]]
       ELSE procs' = [procs EXCEPT ![p] = [pr EXCEPT !.pc = "wh_save_product"]]
    /\ UNCHANGED <<served, products, intents, orders, clock, gateway, lastTotals, coupons, applies>>

\* await intent.save() inside the loop
WebhookSaveFlag(p) ==
    /\ procs[p].pc = "wh_save_flag"
    /\ SaveIntent(p)
    /\ procs' = [procs EXCEPT ![p] = [Clean(procs[p]) EXCEPT !.pc = "wh_save_product"]]
    /\ UNCHANGED <<served, products, orders, clock, gateway, lastTotals, coupons, applies>>

\* await product.save(), then the next line or 200
WebhookSaveProduct(p) ==
    /\ procs[p].pc = "wh_save_product"
    /\ LET pr == procs[p]
           next == NextLine(pr, pr.idx + 1)
       IN  /\ products' = [products EXCEPT ![pr.pid] = SavedProduct(@, pr)]
           /\ IF next = 0
              THEN procs' = [procs EXCEPT ![p] = Done(p, 200, "success")]
              ELSE procs' = [procs EXCEPT ![p] = [pr EXCEPT !.pc = "wh_load", !.idx = next]]
    /\ UNCHANGED <<served, intents, orders, clock, gateway, lastTotals, coupons, applies>>

----------------------------------------------------------------------------
(* POST /phonepe/callback *)

\* From the body to the status the gateway's status API reports and its
\* assignment.  `outcome` is what the status API does: it throws, answers
\* without success, or reports a state.
CallbackStart(p, mo, outcome) ==
    /\ Free(p)
    /\ LET found == IntentByMerchantOrderId(mo)
           end(code, status) == Reject("callback", TRUE, code, status)
           pr == [Idle EXCEPT !.kind = "callback", !.iid = found, !.mo = mo,
                              !.state = outcome, !.doc = intents[found],
                              !.loaded = intents[found].status]
       IN  IF mo = NoId
           THEN procs' = [procs EXCEPT ![p] = end(400, "Missing merchantOrderId")]
           ELSE IF found = NoId
           THEN procs' = [procs EXCEPT ![p] = end(404, "Intent not found")]
           ELSE IF outcome = "unreachable"
           THEN procs' = [procs EXCEPT ![p] = end(500, "Status fetch failed")]
           ELSE IF outcome = "unsuccessful"
           THEN procs' = [procs EXCEPT ![p] = end(200, "not success")]
           ELSE IF outcome = "COMPLETED"
           THEN procs' = [procs EXCEPT ![p] =
                    [SetStatus(pr, "paid") EXCEPT !.pc = "cb_save_paid"]]
           ELSE procs' = [procs EXCEPT ![p] =
                    [SetStatus(pr, "failed") EXCEPT !.pc = "cb_save_failed"]]
    /\ served' = served + 1
    /\ UNCHANGED <<products, intents, orders, clock, gateway, lastTotals, coupons, applies>>

\* await intent.save() on the COMPLETED path
CallbackSavePaid(p) ==
    /\ procs[p].pc = "cb_save_paid"
    /\ SaveIntent(p)
    /\ procs' = [procs EXCEPT ![p] = [Clean(procs[p]) EXCEPT !.pc = "cb_find_order"]]
    /\ UNCHANGED <<served, products, orders, clock, gateway, lastTotals, coupons, applies>>

\* intent.status = "failed"; await intent.save(); 200
CallbackSaveFailed(p) ==
    /\ procs[p].pc = "cb_save_failed"
    /\ SaveIntent(p)
    /\ procs' = [procs EXCEPT ![p] = Done(p, 200, "success")]
    /\ UNCHANGED <<served, products, orders, clock, gateway, lastTotals, coupons, applies>>

\* const existingOrder = await Order.findOne({ orderId: merchantOrderId })
CallbackFindOrder(p) ==
    /\ procs[p].pc = "cb_find_order"
    /\ IF OrderByOrderId(<<"mo", procs[p].mo>>) # 0
       THEN procs' = [procs EXCEPT ![p] = Done(p, 200, "success")]
       ELSE procs' = [procs EXCEPT ![p].pc = "cb_insert"]
    /\ UNCHANGED <<served, products, intents, orders, clock, gateway, lastTotals, coupons, applies>>

\* await order.save(); a refused insert throws into the inner catch
CallbackInsert(p, accepted) ==
    /\ procs[p].pc = "cb_insert"
    /\ LET pr == procs[p]
           newOrder == GatewayOrder(pr.mo, pr.iid, pr.doc)
           first == NextLine(pr, 1)
       IN  IF accepted /\ ~DuplicateKey(newOrder.orderId)
           THEN /\ Len(orders) < MaxOrders
                /\ orders' = Append(orders, newOrder)
                /\ IF first = 0
                   THEN procs' = [procs EXCEPT ![p] = Done(p, 200, "success")]
                   ELSE procs' = [procs EXCEPT ![p] =
                            [pr EXCEPT !.pc = "cb_load", !.idx = first]]
           ELSE /\ procs' = [procs EXCEPT ![p] = Done(p, 500, "Status fetch failed")]
                /\ UNCHANGED orders
    /\ UNCHANGED <<served, products, intents, clock, gateway, lastTotals, coupons, applies>>

\* Product.findById and the decrement on the copy
CallbackLoadProduct(p) ==
    /\ procs[p].pc = "cb_load"
    /\ procs' = [procs EXCEPT ![p] =
           [LoadLine(procs[p], procs[p].idx, FALSE) EXCEPT !.pc = "cb_save_product"]]
    /\ UNCHANGED <<served, products, intents, orders, clock, gateway, lastTotals, coupons, applies>>

\* await product.save(): the validators of the modified path run first and
\* a negative stock throws into the inner catch
CallbackSaveProduct(p) ==
    /\ procs[p].pc = "cb_save_product"
    /\ LET pr == procs[p]
           next == NextLine(pr, pr.idx + 1)
       IN  IF ~StockValid(ModifiedStock(pr))
           THEN /\ procs' = [procs EXCEPT ![p] = Done(p, 500, "Status fetch failed")]
                /\ UNCHANGED products
           ELSE /\ products' = [products EXCEPT ![pr.pid] = SavedProduct(@, pr)]
                /\ IF next = 0
                   THEN procs' = [procs EXCEPT ![p] = Done(p, 200, "success")]
                   ELSE procs' = [procs EXCEPT ![p] =
                            [pr EXCEPT !.pc = "cb_load", !.idx = next]]
    /\ UNCHANGED <<served, intents, orders, clock, gateway, lastTotals, coupons, applies>>

----------------------------------------------------------------------------
(* POST /phonepe/check-status *)

\* res.json({ success: true, status, order })
DoneWithOrder(p, code, status, ord) == [Done(p, code, status) EXCEPT !.res.order = ord]

\* The lookup of the intent by merchantOrderId or by intentId, with the
\* on-the-fly backfill of a merchantOrderId an intent found by intentId lacks.
CheckStatusStart(p, mo, id) ==
    /\ Free(p)
    /\ LET found == IF mo # NoId THEN IntentByMerchantOrderId(mo) ELSE IntentByIntentId(id)
           end(code, status) == Reject("check-status", TRUE, code, status)
           pr == [Idle EXCEPT !.kind = "check-status", !.iid = found,
                              !.doc = intents[found],
                              !.loaded = intents[found].status,
                              !.loadedMo = intents[found].merchantOrderId]
       IN  IF mo = NoId /\ id = NoId
           THEN /\ procs' = [procs EXCEPT ![p] = end(400, "Missing merchantOrderId or intentId")]
                /\ UNCHANGED clock
           ELSE IF found = NoId
           THEN /\ procs' = [procs EXCEPT ![p] = end(404, "Intent not found")]
                /\ UNCHANGED clock
           ELSE IF mo # NoId
           THEN /\ procs' = [procs EXCEPT ![p] = [pr EXCEPT !.mo = mo, !.pc = "cs_status"]]
                /\ UNCHANGED clock
           ELSE IF pr.doc.merchantOrderId # NoId
           THEN /\ procs' = [procs EXCEPT ![p] =
                        [pr EXCEPT !.mo = pr.doc.merchantOrderId, !.pc = "cs_status"]]
                /\ UNCHANGED clock
           ELSE /\ clock < MaxClock
                /\ clock' = clock + 1
                /\ procs' = [procs EXCEPT ![p] =
                        [SetMerchantOrderId(pr, clock + 1) EXCEPT !.pc = "cs_backfill"]]
    /\ served' = served + 1
    /\ UNCHANGED <<products, intents, orders, gateway, lastTotals, coupons, applies>>

\* await intent.save() of the backfilled merchantOrderId
CheckStatusBackfill(p) ==
    /\ procs[p].pc = "cs_backfill"
    /\ SaveIntent(p)
    /\ procs' = [procs EXCEPT ![p] = [Clean(procs[p]) EXCEPT !.pc = "cs_status"]]
    /\ UNCHANGED <<served, products, orders, clock, gateway, lastTotals, coupons, applies>>

\* Order.findOne({ $or: [{ orderId }, { merchantOrderId }, ...] }) of the fast path
OrderOfMerchantOrderId(mo) ==
    FirstOrder({i \in OrderIds : orders[i].orderId = <<"mo", mo>> \/ orders[i].merchantOrderId = mo})

\* The fast path for an intent already paid, then the gateway's status API
\* and the assignment of the status it reports.  `outcome`: no access token,
\* the call throws, an empty response, or a state.
CheckStatusGateway(p, outcome) ==
    /\ procs[p].pc = "cs_status"
    /\ LET pr == [procs[p] EXCEPT !.state = outcome]
           existingOrder == OrderOfMerchantOrderId(pr.mo)
           end(code, status) == Done(p, code, status)
       IN  IF pr.doc.status = "paid" /\ existingOrder # 0
           THEN procs' = [procs EXCEPT ![p] =
                    DoneWithOrder(p, 200, "COMPLETED", existingOrder)]
           ELSE IF outcome = "notoken"
           THEN procs' = [procs EXCEPT ![p] = end(500, "Payment provider token error")]
           ELSE IF outcome = "unreachable"
           THEN procs' = [procs EXCEPT ![p] = end(502, "Payment provider status check failed")]
           ELSE IF outcome = "empty"
           THEN procs' = [procs EXCEPT ![p] = end(200, "Empty response from PhonePe")]
           ELSE IF outcome = "COMPLETED"
           THEN procs' = [procs EXCEPT ![p] =
                    [SetStatus(pr, "paid") EXCEPT !.pc = "cs_save_paid"]]
           ELSE IF outcome \in {"FAILED", "EXPIRED", "CANCELLED"}
           THEN procs' = [procs EXCEPT ![p] =
                    [SetStatus(pr, "failed") EXCEPT !.pc = "cs_save_failed"]]
           ELSE procs' = [procs EXCEPT ![p] = end(200, "PENDING")]
    /\ UNCHANGED <<served, products, intents, orders, clock, gateway, lastTotals, coupons, applies>>

\* !intent.shippingAddress.address || !...city || !...state || !...postalCode
ShippingAddressMissing(doc) ==
    \E f \in {"address", "city", "state", "postalCode"} : doc.shippingAddress[f] = ""

\* await intent.save() of status paid; an intent without a usable shipping
\* address is answered COMPLETED without an order, the others go to
\* createOrderFromIntent
CheckStatusSavePaid(p) ==
    /\ procs[p].pc = "cs_save_paid"
    /\ SaveIntent(p)
    /\ IF ShippingAddressMissing(procs[p].doc)
       THEN procs' = [procs EXCEPT ![p] = DoneWithOrder(p, 200, "COMPLETED", 0)]
       ELSE procs' = [procs EXCEPT ![p] =
                [Clean(procs[p]) EXCEPT !.pc = "svc_find",
                                        !.adjust = ~procs[p].doc.stockAdjusted]]
    /\ UNCHANGED <<served, products, orders, clock, gateway, lastTotals, coupons, applies>>

\* intent.status = 'failed'; await intent.save(); status: state
CheckStatusSaveFailed(p) ==
    /\ procs[p].pc = "cs_save_failed"
    /\ SaveIntent(p)
    /\ procs' = [procs EXCEPT ![p] = Done(p, 200, procs[p].state)]
    /\ UNCHANGED <<served, products, orders, clock, gateway, lastTotals, coupons, applies>>

\* intent.stockAdjusted = true; await intent.save(); the order is returned
CheckStatusFlag(p) ==
    /\ procs[p].pc = "cs_flag"
    /\ intents' = [intents EXCEPT ![procs[p].iid] = SavedIntent(@, SetStockAdjusted(procs[p]))]
    /\ procs' = [procs EXCEPT ![p] = DoneWithOrder(p, 200, "COMPLETED", procs[p].ord)]
    /\ UNCHANGED <<served, products, orders, clock, gateway, lastTotals, coupons, applies>>

----------------------------------------------------------------------------
(* createOrderFromIntent *)

\* Order.findOne({ $or: [{ merchantOrderId }, { intentId }] })
OrderOfIntent(mo, iid) ==
    FirstOrder({i \in OrderIds : orders[i].merchantOrderId = mo \/ orders[i].intentId = iid})

\* product.variants[0]
FirstVariant(product) ==
    CHOOSE v \in DOMAIN product.variants : \A w \in DOMAIN product.variants : v <= w

\* The variant a line of the intent resolves to: by variantId when the line
\* has one, else the product's first variant (the lines carry no size);
\* NoId when there is none
TargetVariant(product, item) ==
    IF item.variantId # NoId
    THEN IF item.variantId \in DOMAIN product.variants THEN item.variantId ELSE NoId
    ELSE IF DOMAIN product.variants = {} THEN NoId
    ELSE FirstVariant(product)

\* product.variants.find(v => v.size === item.variant || v._id === item.variantId)
\* on a line of an existing order
ExistingVariant(product, item) ==
    LET hits == {v \in DOMAIN product.variants : v = item.variant \/ v = item.variantId}
    IN  IF hits = {} THEN NoId ELSE CHOOSE v \in hits : \A w \in hits : v <= w

BulkOp(pid, vid, quantity) == [product |-> pid, variant |-> vid, quantity |-> quantity]

\* The lines of the intent a new order keeps
Resolves(item) ==
    /\ item.productId \in DOMAIN products
    /\ TargetVariant(products[item.productId], item) # NoId

\* finalOrderItems of the new order
RECURSIVE FinalOrderItems(_, _)
FinalOrderItems(items, i) ==
    IF i > Len(items) THEN << >>
    ELSE IF ~Resolves(items[i]) THEN FinalOrderItems(items, i + 1)
    ELSE LET product == products[items[i].productId]
             v == TargetVariant(product, items[i])
         IN  <<[product |-> items[i].productId, variant |-> v, variantId |-> NoId,
                quantity |-> items[i].quantity, price |-> product.variants[v].price]>>
             \o FinalOrderItems(items, i + 1)

\* bulkOps of the new order: one $inc of -quantity per kept line
RECURSIVE NewBulkOps(_, _)
NewBulkOps(items, i) ==
    IF i > Len(items) THEN << >>
    ELSE IF ~Resolves(items[i]) THEN NewBulkOps(items, i + 1)
    ELSE <<BulkOp(items[i].productId,
                  TargetVariant(products[items[i].productId], items[i]),
                  items[i].quantity)>>
         \o NewBulkOps(items, i + 1)

\* bulkOps of the safety adjustment on an existing order
RECURSIVE ExistingBulkOps(_, _)
ExistingBulkOps(items, i) ==
    IF i > Len(items) THEN << >>
    ELSE IF items[i].product \notin DOMAIN products
         \/ ExistingVariant(products[items[i].product], items[i]) = NoId
    THEN ExistingBulkOps(items, i + 1)
    ELSE <<BulkOp(items[i].product,
                  ExistingVariant(products[items[i].product], items[i]),
                  items[i].quantity)>>
         \o ExistingBulkOps(items, i + 1)

\* new Order(payload) of the service
ServiceOrder(pr) ==
    [orderId |-> PublicOrderId, merchantOrderId |-> pr.mo, intentId |-> pr.iid,
     status |-> "processing", isPaid |-> TRUE,
     orderItems |-> pr.fitems,
     totalPrice |-> pr.doc.totals.total,
     shipping |-> "none", emailSent |-> FALSE]

\* product.variants.reduce((sum, v) => sum + (v.stock || 0), 0)
RECURSIVE SumStock(_, _)
SumStock(variants, S) ==
    IF S = {} THEN 0
    ELSE LET v == CHOOSE w \in S : TRUE IN variants[v].stock + SumStock(variants, S \ {v})

TotalStock(product) == SumStock(product.variants, DOMAIN product.variants)

\* The next line of the sync loop whose product exists, 0 when it is over
RECURSIVE NextSync(_, _)
NextSync(items, i) ==
    IF i > Len(items) THEN 0
    ELSE IF items[i].product \in DOMAIN products THEN i
    ELSE NextSync(items, i + 1)

\* What follows the stock adjustment: the shipping push, the email, the
\* return to check-status
AfterStock(pr) ==
    IF pr.path = "new" THEN "svc_ship"
    ELSE IF pr.odoc.shipping # "pushed" THEN "svc_ship"
    ELSE IF ~pr.odoc.emailSent THEN "svc_email"
    ELSE "cs_flag"

\* A failed shipping push that ends the request instead of going on
AfterShipFatal(pr) ==
    IF pr.odoc.shipping = "push_failed" THEN "done"
    ELSE IF pr.path = "new" THEN "svc_email"
    ELSE IF ~pr.odoc.emailSent THEN "svc_email"
    ELSE "cs_flag"

AfterShip(pr) ==
    IF pr.path = "new" THEN "svc_email"
    ELSE IF ~pr.odoc.emailSent THEN "svc_email"
    ELSE "cs_flag"

\* 1) the idempotency lookup; an existing order is updated on the copy
ServiceFind(p) ==
    /\ procs[p].pc = "svc_find"
    /\ LET pr == procs[p]
           existing == OrderOfIntent(pr.mo, pr.iid)
       IN  IF existing # 0
           THEN procs' = [procs EXCEPT ![p] =
                    [pr EXCEPT !.pc = "svc_update", !.path = "existing",
                               !.ord = existing, !.odoc = orders[existing]]]
           ELSE procs' = [procs EXCEPT ![p] =
                    [pr EXCEPT !.pc = "svc_resolve", !.path = "new"]]
    /\ UNCHANGED <<served, products, intents, orders, clock, gateway, lastTotals, coupons, applies>>

\* existing.isPaid = true; existing.status = 'processing'; the totals of the
\* intent; a public orderId when it has none; await existing.save()
ServiceUpdate(p) ==
    /\ procs[p].pc = "svc_update"
    /\ LET pr == procs[p]
           updated == [pr.odoc EXCEPT
                          !.isPaid = TRUE,
                          !.status = "processing",
                          !.totalPrice = pr.doc.totals.total,
                          !.orderId = IF IsPublicOrderId(@) THEN @ ELSE PublicOrderId]
           saved == [f \in DOMAIN updated |->
                        IF updated[f] # pr.odoc[f] THEN updated[f] ELSE orders[pr.ord][f]]
           ops == ExistingBulkOps(updated.orderItems, 1)
           next == [pr EXCEPT !.odoc = updated, !.ops = ops, !.fitems = updated.orderItems]
       IN  /\ orders' = [orders EXCEPT ![pr.ord] = saved]
           /\ IF ~pr.adjust
              THEN procs' = [procs EXCEPT ![p] = [next EXCEPT !.pc = AfterStock(next)]]
              ELSE IF ops # << >>
              THEN procs' = [procs EXCEPT ![p] = [next EXCEPT !.pc = "svc_bulk"]]
              ELSE procs' = [procs EXCEPT ![p] = [next EXCEPT !.pc = "svc_flag"]]
    /\ UNCHANGED <<served, products, intents, clock, gateway, lastTotals, coupons, applies>>

\* 2) the lines and the bulkOps of a new order, from the catalog
ServiceResolve(p) ==
    /\ procs[p].pc = "svc_resolve"
    /\ procs' = [procs EXCEPT ![p] =
           [procs[p] EXCEPT !.pc = "svc_insert",
                            !.fitems = FinalOrderItems(procs[p].doc.orderItems, 1),
                            !.ops = NewBulkOps(procs[p].doc.orderItems, 1)]]
    /\ UNCHANGED <<served, products, intents, orders, clock, gateway, lastTotals, coupons, applies>>

\* created = await order.save(); a refused insert is rethrown to
\* check-status, which answers COMPLETED without an order
ServiceInsert(p, accepted) ==
    /\ procs[p].pc = "svc_insert"
    /\ LET pr == procs[p]
           created == ServiceOrder(pr)
           next == [pr EXCEPT !.ord = Len(orders) + 1, !.odoc = created]
       IN  IF accepted
           THEN /\ Len(orders) < MaxOrders
                /\ orders' = Append(orders, created)
                /\ IF pr.adjust /\ pr.ops # << >>
                   THEN procs' = [procs EXCEPT ![p] = [next EXCEPT !.pc = "svc_bulk"]]
                   ELSE procs' = [procs EXCEPT ![p] = [next EXCEPT !.pc = AfterStock(next)]]
           ELSE /\ procs' = [procs EXCEPT ![p] = DoneWithOrder(p, 200, "COMPLETED", 0)]
                /\ UNCHANGED orders
    /\ UNCHANGED <<served, products, intents, clock, gateway, lastTotals, coupons, applies>>

\* 3) Product.bulkWrite(bulkOps): each updateOne is an atomic $inc of the
\* variant's stock, and no validator runs
ServiceBulkWrite(p) ==
    /\ procs[p].pc = "svc_bulk"
    /\ LET pr == procs[p]
           op == Head(pr.ops)
           first == NextSync(pr.fitems, 1)
       IN  /\ products' = [products EXCEPT
                  ![op.product].variants[op.variant].stock = @ - op.quantity]
           /\ IF Tail(pr.ops) # << >>
              THEN procs' = [procs EXCEPT ![p].ops = Tail(pr.ops)]
              ELSE IF first = 0
              THEN procs' = [procs EXCEPT ![p] = [pr EXCEPT !.ops = << >>, !.pc = "svc_flag"]]
              ELSE procs' = [procs EXCEPT ![p] =
                       [pr EXCEPT !.ops = << >>, !.pc = "svc_sync", !.idx = first]]
    /\ UNCHANGED <<served, intents, orders, clock, gateway, lastTotals, coupons, applies>>

\* 3) Product.bulkWrite throws: the catch logs, and neither the sync loop
\* nor the save of intent.stockAdjusted runs
ServiceBulkWriteFails(p) ==
    /\ procs[p].pc = "svc_bulk"
    /\ procs' = [procs EXCEPT ![p] =
           [procs[p] EXCEPT !.ops = << >>, !.pc = AfterStock(procs[p])]]
    /\ UNCHANGED <<served, products, intents, orders, clock, gateway, lastTotals, coupons, applies>>

\* The sync loop: Product.findById and the test of the total stock
ServiceSync(p) ==
    /\ procs[p].pc = "svc_sync"
    /\ LET pr == procs[p]
           pid == pr.fitems[pr.idx].product
           product == products[pid]
           next == NextSync(pr.fitems, pr.idx + 1)
       IN  IF TotalStock(product) = 0 /\ product.isActive
           THEN procs' = [procs EXCEPT ![p] = [pr EXCEPT !.pc = "svc_sync_save", !.pid = pid]]
           ELSE IF next = 0
           THEN procs' = [procs EXCEPT ![p] = [pr EXCEPT !.pc = "svc_flag", !.idx = 0]]
           ELSE procs' = [procs EXCEPT ![p] = [pr EXCEPT !.idx = next]]
    /\ UNCHANGED <<served, products, intents, orders, clock, gateway, lastTotals, coupons, applies>>

\* A sync step whose product.save() stores nothing
ServiceSyncSaveLost(p) ==
    /\ procs[p].pc = "svc_sync_save"
    /\ LET pr == procs[p]
           next == NextSync(pr.fitems, pr.idx + 1)
       IN  /\ UNCHANGED products
           /\ IF next = 0
              THEN procs' = [procs EXCEPT ![p] =
                       [pr EXCEPT !.pc = "svc_flag", !.idx = 0, !.pid = NoId]]
              ELSE procs' = [procs EXCEPT ![p] =
                       [pr EXCEPT !.pc = "svc_sync", !.idx = next, !.pid = NoId]]
    /\ UNCHANGED <<served, intents, orders, clock, gateway, lastTotals, coupons, applies>>

\* product.isActive = false; await product.save()
ServiceSyncSave(p) ==
    /\ procs[p].pc = "svc_sync_save"
    /\ LET pr == procs[p]
           next == NextSync(pr.fitems, pr.idx + 1)
       IN  /\ products' = [products EXCEPT ![pr.pid].isActive = FALSE]
           /\ IF next = 0
              THEN procs' = [procs EXCEPT ![p] =
                       [pr EXCEPT !.pc = "svc_flag", !.idx = 0, !.pid = NoId]]
              ELSE procs' = [procs EXCEPT ![p] =
                       [pr EXCEPT !.pc = "svc_sync", !.idx = next, !.pid = NoId]]
    /\ UNCHANGED <<served, intents, orders, clock, gateway, lastTotals, coupons, applies>>

\* intent.stockAdjusted = true; await intent.save()
ServiceFlag(p) ==
    /\ procs[p].pc = "svc_flag"
    /\ LET pr == SetStockAdjusted(procs[p]) IN
       /\ intents' = [intents EXCEPT ![pr.iid] = SavedIntent(@, pr)]
       /\ procs' = [procs EXCEPT ![p] = [Clean(pr) EXCEPT !.pc = AfterStock(pr)]]
    /\ UNCHANGED <<served, products, orders, clock, gateway, lastTotals, coupons, applies>>

\* 4) ShippingAPI.pushOrder and the save of shipping.status.  After a push
\* that failed the document holds shipping.status 'push_failed', which the
\* enum of shippingSchema in models/Order.js does not list: `saved` tells
\* whether the collection takes that save or refuses it, in which case
\* save() rejects and the handler only logs.
ServiceShip(p, pushed, saved) ==
    /\ procs[p].pc = "svc_ship"
    /\ LET pr == procs[p]
           status == IF pushed THEN "pushed" ELSE "push_failed"
           next == [pr EXCEPT !.odoc.shipping = status]
       IN  /\ IF pushed \/ saved
              THEN orders' = [orders EXCEPT ![pr.ord].shipping = status]
              ELSE UNCHANGED orders
           /\ procs' = [procs EXCEPT ![p] = [next EXCEPT !.pc = AfterShip(next)]]
    /\ UNCHANGED <<served, products, intents, clock, gateway, lastTotals, coupons, applies>>

\* The document of the request holds a shipping.status the collection refused
Unsaveable(pr) ==
    pr.odoc.shipping = "push_failed" /\ orders[pr.ord].shipping # "push_failed"

\* 5) sendOrderConfirmation and the save of emailSent; the save validates
\* the whole document and is refused again when the shipping status was
\* refused before
ServiceEmail(p, sent) ==
    /\ procs[p].pc = "svc_email"
    /\ LET pr == procs[p] IN
       /\ IF sent /\ ~Unsaveable(pr)
          THEN orders' = [orders EXCEPT ![pr.ord].emailSent = TRUE]
          ELSE UNCHANGED orders
       /\ procs' = [procs EXCEPT ![p] =
              [pr EXCEPT !.pc = "cs_flag", !.odoc.emailSent = sent \/ pr.odoc.emailSent]]
    /\ UNCHANGED <<served, products, intents, clock, gateway, lastTotals, coupons, applies>>

----------------------------------------------------------------------------
(* The initial state and the requests the server takes *)

\* The catalog at the start: a product with one variant, whose stock the
\* payment pipeline sells out, and a product with two variants in ample stock
VariantPrices == <<350, 499>>
ProductPrices == <<100, 499>>

(* models/Coupon.js and the coupon routes (POST /api/coupons,             *)
(* POST /api/coupons/apply).  A loaded coupon is a private copy; save()    *)
(* sends $push for the usage pushed to usedBy and $set for usedCount.      *)

Users == 1..MaxUsers
StoredCodes == {"SAVE10"}
ApplyCodes == {"SAVE10", "save10", "NOPE"}
OrderAmounts == {50, 200}

NoCoupon == [isActive |-> FALSE, usedCount |-> 0, usageLimit |-> 0,
             userLimit |-> 0, usedBy |-> << >>]

NoApply == [pc |-> "idle", user |-> NoId, code |-> "", doc |-> NoCoupon,
            discountAmount |-> 0, res |-> [code |-> 0, message |-> "none"]]

\* couponSchema.methods.isValid
IsValid(coupon, now) ==
    /\ coupon.isActive
    /\ coupon.validFrom <= now
    /\ coupon.validUntil >= now
    /\ coupon.usedCount < coupon.usageLimit

\* couponSchema.methods.calculateDiscount; the percentages of the model
\* divide the order amounts exactly
CalculateDiscount(coupon, orderAmount, now) ==
    IF ~IsValid(coupon, now) \/ orderAmount < coupon.minimumAmount THEN 0
    ELSE LET percentage == (orderAmount * coupon.value) \div 100
             discount ==
                 IF coupon.type = "percentage"
                 THEN IF coupon.maximumDiscount > 0 /\ percentage > coupon.maximumDiscount
                      THEN coupon.maximumDiscount
                      ELSE percentage
                 ELSE coupon.value
         IN  Min(discount, orderAmount)

\* coupon.usedBy.filter(usage => usage.user.toString() === req.user.id).length
UserUsage(coupon, user) ==
    Cardinality({i \in 1..Len(coupon.usedBy) : coupon.usedBy[i].user = user})

\* Coupon.findOne({ code: code.toUpperCase(), isActive: true })
FindActiveCoupon(code) ==
    LET key == ToUpperCase(code) IN
    IF key \in StoredCodes /\ coupons[key].isActive THEN coupons[key] ELSE NoCoupon

\* POST /api/coupons: Coupon.create(req.body) with the schema defaults for
\* usedCount and usedBy; a second coupon of the same code is refused by the
\* unique index and nothing is written
CreateCoupon(code, type, maximumDiscount, usageLimit, userLimit) ==
    /\ coupons[code] = NoCoupon
    /\ coupons' = [coupons EXCEPT ![code] =
                      [code |-> code, type |-> type, value |-> 10,
                       minimumAmount |-> 100, maximumDiscount |-> maximumDiscount,
                       usageLimit |-> usageLimit, usedCount |-> 0,
                       userLimit |-> userLimit, usedBy |-> << >>,
                       validFrom |-> 202505150, validUntil |-> 202512180,
                       isActive |-> TRUE]]
    /\ UNCHANGED <<products, intents, orders, procs, clock, served, gateway,
                   lastTotals, applies>>

\* POST /api/coupons/apply up to the await of coupon.save()
ApplyStart(p, user, code, orderAmount, now) ==
    /\ applies[p].pc \in {"idle", "done"}
    /\ LET coupon == FindActiveCoupon(code)
           discountAmount == CalculateDiscount(coupon, orderAmount, now)
           fresh == [NoApply EXCEPT !.user = user, !.code = ToUpperCase(code)]
       IN  IF coupon = NoCoupon \/ ~IsValid(coupon, now)
           THEN applies' = [applies EXCEPT ![p] =
                    [fresh EXCEPT !.pc = "done",
                                  !.res = [code |-> 400, message |-> "Invalid or expired coupon"]]]
           ELSE IF UserUsage(coupon, user) >= coupon.userLimit
           THEN applies' = [applies EXCEPT ![p] =
                    [fresh EXCEPT !.pc = "done",
                                  !.res = [code |-> 400, message |-> "Coupon usage limit exceeded"]]]
           ELSE IF discountAmount = 0
           THEN applies' = [applies EXCEPT ![p] =
                    [fresh EXCEPT !.pc = "done",
                                  !.res = [code |-> 400, message |-> "Coupon cannot be applied to this order"]]]
           ELSE applies' = [applies EXCEPT ![p] =
                    [fresh EXCEPT !.pc = "save",
                                  !.discountAmount = discountAmount,
                                  !.doc = [coupon EXCEPT
                                              !.usedBy = Append(@, [user |-> user,
                                                                    orderAmount |-> orderAmount]),
                                              !.usedCount = @ + 1]]]
    /\ UNCHANGED <<products, intents, orders, procs, clock, served, gateway,
                   lastTotals, coupons>>

\* await coupon.save() and the 200 answer
ApplySave(p) ==
    /\ applies[p].pc = "save"
    /\ LET doc == applies[p].doc IN
       coupons' = [coupons EXCEPT
                      ![applies[p].code].usedBy = Append(@, doc.usedBy[Len(doc.usedBy)]),
                      ![applies[p].code].usedCount = doc.usedCount]
    /\ applies' = [applies EXCEPT
                      ![p].pc = "done",
                      ![p].res = [code |-> 200, message |-> "Coupon applied successfully"]]
    /\ UNCHANGED <<products, intents, orders, procs, clock, served, gateway, lastTotals>>

----------------------------------------------------------------------------
InitialCatalog ==
    (1 :> [price |-> ProductPrices[1], stock |-> InitStock, isActive |-> TRUE,
           variants |-> (1 :> [price |-> VariantPrices[1], stock |-> InitStock])])
    @@
    (2 :> [price |-> ProductPrices[2], stock |-> MaxQty, isActive |-> TRUE,
           variants |-> [v \in VariantIds |->
                            [price |-> VariantPrices[v], stock |-> MaxQty]]])

Init ==
    /\ products = InitialCatalog
    /\ intents = [i \in IntentIds |-> NoIntent]
    /\ orders = << >>
    /\ procs = [p \in Procs |-> Idle]
    /\ clock = 0
    /\ served = 0
    /\ gateway = {}
    /\ lastTotals = NoResponse
    /\ coupons = [code \in StoredCodes |-> NoCoupon]
    /\ applies = [p \in Procs |-> NoApply]

\* Request data
MerchantOrderIds == 1..MaxClock
NowValues == {202505150, 202505151, 202512180, 202512181}
CouponCodes == {"", "FLAT100", "flat100", "FIRST5", "FREESHIP", "BOGUS"}
PriceValues == {100, 350, 499}
Addresses == [AddrFields -> AddrValues]

\* Order lines a client may send: a product of the catalog or not, a
\* variant of it or not, with or without variantId, any quantity
Lines ==
    {Item(pid, v, vid, q) :
        pid \in ProductIds \cup {NoId, 3},
        v \in VariantIds \cup {NoId, 3},
        vid \in VariantIds \cup {NoId},
        q \in 0..MaxQty}

WellFormed(line) == line.variantId \in {NoId, line.variant}

Carts == UNION {[1..k -> {l \in Lines : WellFormed(l)}] : k \in 0..MaxItems}

\* The carts of the payment pipeline: a line of the plain product and a
\* line of a variant chosen on the product page
PlainLine == Item(1, NoId, NoId, 1)
VariantLine == Item(1, 1, 1, 1)
PipelineCarts == {<<PlainLine>>, <<VariantLine>>}

\* The payment gateway: a transaction it accepted is PENDING until the
\* customer pays or the payment fails or expires; its webhooks and its
\* status API report the state of the transaction
Transactions(mo) == {t \in gateway : t.merchantOrderId = mo /\ t.state # "REJECTED"}

TxState(mo) == (CHOOSE t \in Transactions(mo) : TRUE).state

\* The customer reaches the payment page through the redirect URL of the
\* create-order response
Redirected(mo) ==
    \A p \in Procs : ~(procs[p].kind = "create-order" /\ procs[p].pc # "done"
                        /\ procs[p].mo = mo)

GatewaySettle(mo, state) ==
    /\ Redirected(mo)
    /\ \E t \in Transactions(mo) :
          /\ t.state = "PENDING"
          /\ gateway' = (gateway \ {t}) \cup {[t EXCEPT !.state = state]}
    /\ UNCHANGED <<served, products, intents, orders, procs, clock, lastTotals, coupons, applies>>

\* What the status API answers about a merchantOrderId, next to `failures`:
\* the state of the transaction when the gateway has one
StatusAnswers(mo, failures) ==
    IF Transactions(mo) = {} THEN failures ELSE failures \cup {TxState(mo)}

\* The same when the status API is up: it knows the transaction or
\* answers with an error
ReliableAnswers(mo) ==
    IF Transactions(mo) = {} THEN {"unreachable"} ELSE {TxState(mo)}

\* The steps of a callback in flight that take no input
ContinueCallback(p) ==
    \/ CallbackSavePaid(p)
    \/ CallbackSaveFailed(p)
    \/ CallbackFindOrder(p)
    \/ CallbackLoadProduct(p)
    \/ CallbackSaveProduct(p)

\* The steps of the other requests in flight that take no input
Continue(p) ==
    \/ CreateOrderSaveMo(p)
    \/ CreateOrderSaveAttempt(p)
    \/ WebhookSavePaid(p)
    \/ WebhookSaveOther(p)
    \/ WebhookFindOrder(p)
    \/ WebhookLoadProduct(p)
    \/ WebhookSaveFlag(p)
    \/ WebhookSaveProduct(p)
    \/ CheckStatusBackfill(p)
    \/ CheckStatusSavePaid(p)
    \/ CheckStatusSaveFailed(p)
    \/ CheckStatusFlag(p)
    \/ ServiceFind(p)
    \/ ServiceUpdate(p)
    \/ ServiceResolve(p)
    \/ ServiceBulkWrite(p)
    \/ ServiceSync(p)
    \/ ServiceSyncSave(p)
    \/ ServiceFlag(p)

\* The payment pipeline under concurrent requests: every endpoint of the
\* PhonePe flow on every slot, with the gateway reporting COMPLETED or
\* FAILED and the database, the shipping partner and the mailer at work
Next ==
    \/ \E items \in PipelineCarts :
           InitiateIntent(items, "", FullAddress, EmptyAddress, TRUE, 202505150)
    \/ \E mo \in MerchantOrderIds, state \in {"COMPLETED", "FAILED"} : GatewaySettle(mo, state)
    \/ \E p \in Procs :
           \/ \E id \in IntentIds : CreateOrderStart(p, id)
           \/ \E outcome \in {"ack", "unreachable"} : CreateOrderGateway(p, outcome)
           \/ \E mo \in MerchantOrderIds :
                  /\ Transactions(mo) # {}
                  /\ TxState(mo) # "PENDING"
                  /\ WebhookStart(p, FALSE, TRUE, TRUE, mo, TxState(mo))
           \/ WebhookInsert(p, TRUE)
           \/ \E mo \in MerchantOrderIds :
                  \E outcome \in ReliableAnswers(mo) : CallbackStart(p, mo, outcome)
           \/ CallbackInsert(p, TRUE)
           \/ ContinueCallback(p)
           \/ \E mo \in MerchantOrderIds : CheckStatusStart(p, mo, NoId)
           \/ \E id \in IntentIds : CheckStatusStart(p, NoId, id)
           \/ \E outcome \in ReliableAnswers(procs[p].mo) : CheckStatusGateway(p, outcome)
           \/ ServiceInsert(p, TRUE)
           \/ ServiceShip(p, TRUE, TRUE)
           \/ ServiceEmail(p, TRUE)
           \/ Continue(p)

Spec == Init /\ [][Next]_vars

\* One request at a time on the first slot: every endpoint of the PhonePe
\* flow with every answer of the gateway, of the database, of the shipping
\* partner and of the mailer
NextSerial ==
    \/ \E items \in PipelineCarts :
           InitiateIntent(items, "", FullAddress, EmptyAddress, TRUE, 202505150)
    \/ \E id \in IntentIds : CreateOrderStart(1, id)
    \/ \E outcome \in {"ack", "malformed", "rejected", "unreachable"} :
           CreateOrderGateway(1, outcome)
    \/ \E mo \in MerchantOrderIds, state \in GatewayStates \ {"PENDING"} :
           GatewaySettle(mo, state)
    \/ \E mo \in MerchantOrderIds :
           /\ Transactions(mo) # {}
           /\ WebhookStart(1, FALSE, TRUE, TRUE, mo, TxState(mo))
    \/ \E bodyEmpty \in BOOLEAN, jsonOk \in BOOLEAN, mo \in MerchantOrderIds \cup {NoId} :
           /\ bodyEmpty \/ ~jsonOk \/ mo = NoId
           /\ WebhookStart(1, bodyEmpty, TRUE, jsonOk, mo, "COMPLETED")
    \/ \E bodyEmpty \in BOOLEAN, jsonOk \in BOOLEAN,
          mo \in MerchantOrderIds \cup {NoId}, state \in GatewayStates :
           WebhookStart(1, bodyEmpty, FALSE, jsonOk, mo, state)
    \/ \E accepted \in BOOLEAN : WebhookInsert(1, accepted)
    \/ \E mo \in MerchantOrderIds \cup {NoId} :
           \E outcome \in StatusAnswers(mo, {"unreachable", "unsuccessful"}) :
               CallbackStart(1, mo, outcome)
    \/ \E accepted \in BOOLEAN : CallbackInsert(1, accepted)
    \/ ContinueCallback(1)
    \/ \E mo \in MerchantOrderIds \cup {NoId}, id \in IntentIds \cup {NoId} :
           CheckStatusStart(1, mo, id)
    \/ \E outcome \in StatusAnswers(procs[1].mo, {"notoken", "unreachable", "empty"}) :
           CheckStatusGateway(1, outcome)
    \/ \E accepted \in BOOLEAN : ServiceInsert(1, accepted)
    \/ \E pushed \in BOOLEAN, saved \in BOOLEAN : ServiceShip(1, pushed, saved)
    \/ ServiceBulkWriteFails(1)
    \/ \E sent \in BOOLEAN : ServiceEmail(1, sent)
    \/ Continue(1)

SpecSerial == Init /\ [][NextSerial]_vars

\* The way to the gateway, one request at a time: both kinds of intent,
\* price edits of the catalog, create-order and the Razorpay verification
NextPrice ==
    \/ \E items \in PipelineCarts :
           InitiateIntent(items, "", FullAddress, EmptyAddress, TRUE, 202505150)
    \/ \E items \in PipelineCarts :
           RazorpayCreateOrder(items, "", FullAddress, TRUE, 202505150, TRUE)
    \/ \E id \in IntentIds : RazorpayVerify(id, TRUE)
    \/ \E vid \in {NoId, 1}, price \in PriceValues : AdminSetPrice(1, vid, price)
    \/ \E id \in IntentIds : CreateOrderStart(1, id)
    \/ \E code \in {"", "FIRST5"} : CreateOrderTotals(1, code, 202505150)
    \/ CreateOrderSaveTotals(1)
    \/ CreateOrderSaveMo(1)
    \/ \E outcome \in {"ack", "malformed", "rejected", "unreachable"} :
           CreateOrderGateway(1, outcome)
    \/ CreateOrderSaveAttempt(1)

SpecPrice == Init /\ [][NextPrice]_vars

\* Intent creation on every request: every cart, coupon code and instant
\* with a complete address, and every shipping address with a valid cart
NextIntent ==
    \/ \E items \in Carts, code \in CouponCodes, now \in NowValues :
           InitiateIntent(items, code, FullAddress, EmptyAddress, TRUE, now)
    \/ \E ship \in Addresses, cust \in {EmptyAddress, FullAddress}, custOk \in BOOLEAN :
           InitiateIntent(<<VariantLine>>, "", ship, cust, custOk, 202505150)
    \/ \E items \in PipelineCarts, code \in {"", "FIRST5"}, ship \in Addresses,
          custOk \in BOOLEAN, gatewayOk \in BOOLEAN :
           RazorpayCreateOrder(items, code, ship, custOk, 202505150, gatewayOk)

SpecIntent == Init /\ [][NextIntent]_vars

\* Coupons: creation by an admin and apply requests that overlap
NextCoupon ==
    \/ \E type \in {"percentage", "fixed"}, maximumDiscount \in {0, 15},
          usageLimit \in 1..MaxUsageLimit, userLimit \in 1..MaxUserLimit :
           CreateCoupon("SAVE10", type, maximumDiscount, usageLimit, userLimit)
    \/ \E p \in Procs :
           \/ \E user \in Users, code \in ApplyCodes, orderAmount \in OrderAmounts,
                 now \in {202505150, 202512181} :
                  ApplyStart(p, user, code, orderAmount, now)
           \/ ApplySave(p)

SpecCoupon == Init /\ [][NextCoupon]_vars

\* The PhonePe flow one request at a time, and the administration of the
\* orders it creates
NextStatus ==
    \/ NextSerial
    \/ \E k \in OrderIds, status \in OrderStatuses \cup {"refunded"}, isAdmin \in BOOLEAN :
           UpdateStatus(k, status, isAdmin)

SpecStatus == Init /\ [][NextStatus]_vars

----------------------------------------------------------------------------
(* POST /api/orders and PUT /api/orders/:id/cancel *)

\* POST /api/orders for one line: the variant named by variantId, else the
\* first one; 404 and 400 answers leave every collection as it was.  The
\* order is saved with the user of the request (null for a guest), then
\* Product.bulkWrite takes the quantity from the variant and a product
\* whose variants are all sold out is deactivated.  The shipping push and
\* the emails that follow touch no stock and no status.
PlaceOrder(pid, vid, quantity, user) ==
    /\ Len(orders) < MaxOrders
    /\ pid \in DOMAIN products
    /\ LET line == [productId |-> pid, variant |-> NoId, variantId |-> vid, quantity |-> quantity]
           v == TargetVariant(products[pid], line)
           taken == [products[pid] EXCEPT !.variants[v].stock = @ - quantity]
       IN  /\ v # NoId
           /\ products[pid].variants[v].stock >= quantity
           /\ orders' = Append(orders,
                  [orderId |-> <<"client", Len(orders) + 1>>, merchantOrderId |-> NoId,
                   intentId |-> NoId, status |-> "pending", isPaid |-> FALSE,
                   orderItems |-> <<[product |-> pid, variant |-> v, variantId |-> NoId,
                                     quantity |-> quantity,
                                     price |-> products[pid].variants[v].price]>>,
                   totalPrice |-> products[pid].variants[v].price * quantity
                                  + ShippingFeeFor(products[pid].variants[v].price * quantity),
                   shipping |-> "none", emailSent |-> FALSE, user |-> user])
           /\ products' = [products EXCEPT ![pid] =
                  IF TotalStock(taken) = 0 /\ taken.isActive
                  THEN [taken EXCEPT !.isActive = FALSE] ELSE taken]
    /\ UNCHANGED <<served, intents, procs, clock, gateway, lastTotals, coupons, applies>>

\* PUT /:id/cancel up to the await of order.save(): Order.findById, the
\* owner test (order.user.toString() throws on the null user of a guest
\* order), the status test, order.status = 'cancelled' on the copy
CancelStart(p, k, user) ==
    /\ Free(p)
    /\ served' = served + 1
    /\ LET end(code, status) == Reject("cancel", TRUE, code, status) IN
       IF k \notin OrderIds
       THEN procs' = [procs EXCEPT ![p] = end(404, "Order not found")]
       ELSE IF orders[k].user = NoId
       THEN procs' = [procs EXCEPT ![p] = end(500, "Server error")]
       ELSE IF orders[k].user # user
       THEN procs' = [procs EXCEPT ![p] = end(403, "Not authorized to cancel this order")]
       ELSE IF orders[k].status \in {"delivered", "cancelled"}
       THEN procs' = [procs EXCEPT ![p] = end(400, "Order cannot be cancelled")]
       ELSE procs' = [procs EXCEPT ![p] =
                [Idle EXCEPT !.kind = "cancel", !.pc = "cancel_save", !.ord = k,
                             !.odoc = [orders[k] EXCEPT !.status = "cancelled"]]]
    /\ UNCHANGED <<products, intents, orders, clock, gateway, lastTotals, coupons, applies>>

\* await order.save(): the modified status is written; the cancellation
\* at the shipping partner is attempted inside a try/catch
CancelSave(p) ==
    /\ procs[p].pc = "cancel_save"
    /\ orders' = [orders EXCEPT ![procs[p].ord].status = procs[p].odoc.status]
    /\ procs' = [procs EXCEPT ![p] = [procs[p] EXCEPT !.pc = "cancel_restore", !.idx = 1]]
    /\ UNCHANGED <<served, products, intents, clock, gateway, lastTotals, coupons, applies>>

\* One turn of the restore loop: Product.findByIdAndUpdate with $inc of
\* variants.$.stock by the quantity of the line.  The update restores the
\* variant of the line, matches nothing, or is refused by the database,
\* which ends the request in the catch with 500.
CancelRestore(p, outcome) ==
    /\ procs[p].pc = "cancel_restore"
    /\ LET pr == procs[p]
           item == pr.odoc.orderItems[pr.idx]
           last == pr.idx >= Len(pr.odoc.orderItems)
       IN  /\ IF outcome = "restored"
              THEN /\ item.product \in DOMAIN products
                   /\ item.variant \in DOMAIN products[item.product].variants
                   /\ products' = [products EXCEPT
                          ![item.product].variants[item.variant].stock = @ + item.quantity]
              ELSE UNCHANGED products
           /\ IF outcome = "error"
              THEN procs' = [procs EXCEPT ![p] = Done(p, 500, "Server error")]
              ELSE IF last
              THEN procs' = [procs EXCEPT ![p] = Done(p, 200, "Order cancelled successfully")]
              ELSE procs' = [procs EXCEPT ![p] = [pr EXCEPT !.idx = @ + 1]]
    /\ UNCHANGED <<served, intents, orders, clock, gateway, lastTotals, coupons, applies>>

\* Orders placed by guests and by users, delivered by an admin, and cancel
\* requests that overlap
NextCancel ==
    \/ \E pid \in ProductIds, vid \in VariantIds \cup {NoId}, quantity \in 1..MaxQty,
          user \in Users \cup {NoId} :
           PlaceOrder(pid, vid, quantity, user)
    \/ \E k \in OrderIds :
           orders[k].status # "cancelled" /\ UpdateStatus(k, "delivered", TRUE)
    \/ \E p \in Procs :
           \/ \E k \in OrderIds \cup {MaxOrders + 1}, user \in Users : CancelStart(p, k, user)
           \/ CancelSave(p)
           \/ \E outcome \in {"restored", "nomatch", "error"} : CancelRestore(p, outcome)

SpecCancel == Init /\ [][NextCancel]_vars

----------------------------------------------------------------------------
(* Properties of the payment pipeline *)

Persisted == {i \in IntentIds : intents[i] # NoIntent}

\* The Orders that refer to an intent, by intentId or by merchantOrderId
OrdersOfIntent(i) ==
    {k \in OrderIds : \/ orders[k].intentId = i
                      \/ /\ orders[k].merchantOrderId # NoId
                         /\ orders[k].merchantOrderId = intents[i].merchantOrderId}

\* C1: whatever confirmations were delivered, through whatever channels and
\* in whatever interleaving, at most one Order refers to an intent.
C1_AtMostOneOrderPerIntent ==
    \A i \in Persisted : Cardinality(OrdersOfIntent(i)) <= 1

RECURSIVE SumOver(_, _)
SumOver(f, S) ==
    IF S = {} THEN 0
    ELSE LET x == CHOOSE y \in S : TRUE IN f[x] + SumOver(f, S \ {x})

\* Units taken out of the stock of a product since the start: from its own
\* stock and from the stock of its variants
UnitsTaken(pid) ==
    (InitialCatalog[pid].stock - products[pid].stock)
    + SumOver([v \in DOMAIN products[pid].variants |->
                  InitialCatalog[pid].variants[v].stock - products[pid].variants[v].stock],
              DOMAIN products[pid].variants)

\* Units of a product the lines of an intent order
UnitsOrdered(i, pid) ==
    SumOver([k \in 1..Len(intents[i].orderItems) |->
                IF intents[i].orderItems[k].productId = pid
                THEN intents[i].orderItems[k].quantity ELSE 0],
            1..Len(intents[i].orderItems))

\* C2: the stock of a product decreases by the ordered quantity once per
\* intent: never by more than the intents order in total.
C2_StockReducedOncePerIntent ==
    \A pid \in ProductIds :
        UnitsTaken(pid) <= SumOver([i \in Persisted |-> UnitsOrdered(i, pid)], Persisted)

Confirmations == {"webhook", "callback", "check-status"}

AllStock == [pid \in ProductIds |->
                <<products[pid].stock,
                  [v \in DOMAIN products[pid].variants |-> products[pid].variants[v].stock]>>]

\* The gateway completed the payment of this correlation id
Completed(mo) == Transactions(mo) # {} /\ TxState(mo) = "COMPLETED"

\* C3: a webhook, check-status or callback request for a completed payment
\* that finds the intent already paid inserts no Order next to one the
\* intent has, takes no unit of stock beyond those the intents order, and
\* is answered with a success response.
C3_ReplayAfterPaidIsHarmless ==
    [][\A p \in Procs :
          (/\ procs[p].kind \in Confirmations
           /\ procs[p].loaded = "paid"
           /\ Completed(procs[p].mo)
           /\ procs'[p] # procs[p])
          => /\ OrdersOfIntent(procs[p].iid) # {} => Len(orders') = Len(orders)
             /\ AllStock' # AllStock => C2_StockReducedOncePerIntent'
             /\ procs'[p].pc = "done" => procs'[p].res.code = 200]_vars

\* C4: a paid intent stays paid.
C4_PaidIsTerminal ==
    [][\A i \in IntentIds : intents[i].status = "paid" => intents'[i].status = "paid"]_vars

\* C5: a failed or expired intent never becomes paid or initiated.
C5_FailedIsTerminal ==
    [][\A i \in IntentIds :
          intents[i].status \in {"failed", "expired"}
          => intents'[i].status \notin {"paid", "initiated"}]_vars

\* C7: no stock of a product or of a variant is ever negative.
C7_StockNeverNegative ==
    \A pid \in ProductIds :
        /\ products[pid].stock >= 0
        /\ \A v \in DOMAIN products[pid].variants : products[pid].variants[v].stock >= 0

\* The catalog prices the lines of an intent no longer add up to the
\* subtotal the intent holds
PriceChanged(i) == SumLines(products, intents[i].orderItems, 1) # intents[i].totals.subtotal

\* C6: a create-order call for an intent whose catalog prices changed since
\* its creation is rejected with a 400 at once, the intent becomes failed,
\* and no transaction of that intent is sent to the gateway.
C6_PriceChangeRejected ==
    [][\A p \in Procs :
          /\ (/\ Free(p)
              /\ procs'[p].kind = "create-order"
              /\ procs'[p] # procs[p]
              /\ procs'[p].iid # NoId
              /\ PriceChanged(procs'[p].iid))
             => procs'[p].pc = "done" /\ procs'[p].res.code = 400
          /\ (/\ procs[p].kind = "create-order"
              /\ procs[p].iid # NoId
              /\ PriceChanged(procs[p].iid))
             => /\ gateway' = gateway
                /\ procs'[p].pc = "done" => intents'[procs[p].iid].status = "failed"]_vars

\* A coupon code names a rule that is active, not expired at `now` and
\* whose minimum the subtotal reaches
CouponApplies(code, subtotal, now) ==
    \E k \in 1..Len(COUPON_RULES) :
        /\ ToUpperCase(COUPON_RULES[k].code) = ToUpperCase(code)
        /\ COUPON_RULES[k].isActive
        /\ now <= COUPON_RULES[k].expiryDate
        /\ subtotal >= COUPON_RULES[k].minOrderValue

\* The intent the latest creation request persisted
Created == intents[lastTotals.intentId]

\* C8: the discount of a created intent lies between 0 and its subtotal,
\* and it is 0 unless the coupon code names an active, unexpired rule whose
\* minimum order value the subtotal reaches.
C8_DiscountBounded ==
    lastTotals.code = 200 =>
        /\ Created.totals.discountAmount >= 0
        /\ Created.totals.discountAmount <= Created.totals.subtotal
        /\ ~CouponApplies(lastTotals.couponCode, Created.totals.subtotal, lastTotals.now)
               => Created.totals.discountAmount = 0

\* An intent was created with the code of a rule that is expired or whose
\* minimum the subtotal misses, and it carries no discount
C8_Witness ==
    /\ lastTotals.code = 200
    /\ lastTotals.op = "initiate-intent"
    /\ FindCoupon(lastTotals.couponCode) # 0
    /\ ~CouponApplies(lastTotals.couponCode, Created.totals.subtotal, lastTotals.now)
    /\ Created.totals.discountAmount = 0

\* C9: every persisted PaymentIntent has address, city, state, postalCode
\* and phone non-empty; a creation request that lacks one is answered with
\* the list of the missing fields and persists nothing.
C9_PersistedIntentsHaveAddress ==
    /\ \A i \in Persisted : \A f \in AddrFields : intents[i].shippingAddress[f] # ""
    /\ lastTotals.missing # {} => lastTotals.code = 400 /\ lastTotals.intentId = NoId

\* A webhook request taken by a slot whose Authorization header does not
\* match
UnauthorizedWebhook(p) ==
    /\ procs'[p] # procs[p]
    /\ procs'[p].kind = "webhook"
    /\ ~procs'[p].auth

StatusQueried(p) ==
    ~(procs[p].doc.status = "paid" /\ OrderOfMerchantOrderId(procs[p].mo) # 0)

\* The status query of the check-status request of slot p fails in this step
CheckStatusQueryFails(p) ==
    /\ StatusQueried(p)
    /\ \E failure \in {"notoken", "unreachable"} : CheckStatusGateway(p, failure)

\* The status query of a callback for a known intent fails in this step
CallbackQueryFails(p) ==
    \E mo \in MerchantOrderIds :
        /\ IntentByMerchantOrderId(mo) # NoId
        /\ CallbackStart(p, mo, "unreachable")

\* C11: when the gateway's status query fails during check-status or the
\* callback, the caller gets an error response, and the intent has the
\* status, merchantOrderId and stockAdjusted flag it had when the call
\* began and the Orders are the same.
C11_QueryFailureChangesNothing ==
    [][\A p \in Procs :
          /\ CheckStatusQueryFails(p)
             => /\ procs'[p].res.code >= 500
                /\ intents'[procs[p].iid].status = procs[p].loaded
                /\ intents'[procs[p].iid].merchantOrderId = procs[p].loadedMo
                /\ intents'[procs[p].iid].stockAdjusted = procs[p].doc.stockAdjusted
                /\ orders' = orders
          /\ CallbackQueryFails(p)
             => /\ procs'[p].res.code >= 500
                /\ stores' = stores]_vars

\* The request of slot p has been told by the gateway that the payment is
\* in the given state and takes a step
Reported(p, state) ==
    /\ procs[p].kind \in Confirmations
    /\ procs[p].state = state
    /\ procs'[p] # procs[p]

\* C12: a confirmation request to which the gateway reports PENDING leaves
\* the status of the intent as it is and creates no Order, and check-status
\* answers PENDING.
C12_PendingChangesNothing ==
    [][\A p \in Procs :
          /\ Reported(p, "PENDING")
             => /\ intents'[procs[p].iid].status = intents[procs[p].iid].status
                /\ orders' = orders
          /\ (StatusQueried(p) /\ CheckStatusGateway(p, "PENDING"))
             => /\ procs'[p].res.status = "PENDING"
                /\ intents' = intents
                /\ orders' = orders]_vars

\* The status an intent takes for a state the gateway reports
StatusFor(state) == IF state = "EXPIRED" THEN "expired" ELSE "failed"

\* C13: a confirmation request for an intent that was pending or initiated
\* and to which the gateway reports FAILED ends with the intent failed, one
\* to which it reports EXPIRED ends with the intent expired, and neither
\* creates an Order or changes stock.
C13_FailureIsRecorded ==
    [][\A p \in Procs : \A state \in {"FAILED", "EXPIRED"} :
          (Reported(p, state) /\ procs[p].loaded \in {"pending", "initiated"})
          => /\ orders' = orders
             /\ AllStock' = AllStock
             /\ procs'[p].pc = "done"
                   => intents'[procs[p].iid].status = StatusFor(state)]_vars

\* The persisted document of the intent carries reconciliationRequired
Flagged(i) ==
    /\ "reconciliationRequired" \in DOMAIN intents[i]
    /\ intents[i].reconciliationRequired

\* A confirmation request about the intent has been answered
Confirmed(i) ==
    \E p \in Procs :
        /\ procs[p].pc = "done"
        /\ procs[p].kind \in Confirmations
        /\ procs[p].iid = i

\* C14: once a confirmation request about an intent has been answered, an
\* intent that is paid and has no Order carries the persisted
\* reconciliationRequired flag.
C14_PaidWithoutOrderIsFlagged ==
    \A i \in Persisted :
        (Confirmed(i) /\ intents[i].status = "paid" /\ OrdersOfIntent(i) = {})
        => Flagged(i)

\* The answers of check-status that carry a message and no status
CheckStatusMessages ==
    {"Missing merchantOrderId or intentId", "Intent not found",
     "merchantOrderId missing after lookup", "Payment provider token error",
     "Payment provider status check failed", "Empty response from PhonePe",
     "Status check failed"}

\* The request names the intent by its merchantOrderId or by its intentId
Names(mo, id, i) ==
    \/ mo # NoId /\ mo = intents[i].merchantOrderId
    \/ mo = NoId /\ id = i

\* C15: check-status resolves the intent a request names by merchantOrderId
\* or by intentId, and the status it answers with is COMPLETED, PENDING,
\* FAILED or EXPIRED.
C15_CheckStatusAnswers ==
    [][\A p \in Procs :
          /\ \A mo \in MerchantOrderIds \cup {NoId}, id \in IntentIds \cup {NoId} :
                \A i \in Persisted :
                    (Names(mo, id, i) /\ CheckStatusStart(p, mo, id))
                    => procs'[p].iid = i
          /\ (procs'[p].kind = "check-status" /\ procs'[p].pc = "done"
                /\ procs'[p] # procs[p])
             => procs'[p].res.status \in
                    CheckStatusMessages \cup {"COMPLETED", "PENDING", "FAILED", "EXPIRED"}]_vars

\* Slot p takes a signed webhook or a callback for this merchantOrderId
Notified(p, mo) ==
    \/ \E state \in GatewayStates : WebhookStart(p, FALSE, TRUE, TRUE, mo, state)
    \/ \E outcome \in GatewayStates \cup {"unreachable", "unsuccessful"} :
           CallbackStart(p, mo, outcome)

\* C16: a signed webhook or a callback whose merchantOrderId matches no
\* PaymentIntent is answered with a 2xx response and changes no
\* PaymentIntent, Order or Product.
C16_UnknownIntentIsAcknowledged ==
    [][\A p \in Procs : \A mo \in MerchantOrderIds :
          (IntentByMerchantOrderId(mo) = NoId /\ Notified(p, mo))
          => /\ procs'[p].pc = "done"
             /\ procs'[p].res.code \in 200..299
             /\ stores' = stores]_vars

\* C17: a signed webhook for an intent it finds paid, failed or expired is
\* answered with a 2xx response, whatever state its payload reports.
C17_TerminalWebhookIsAcknowledged ==
    [][\A p \in Procs :
          (/\ procs[p].kind = "webhook"
           /\ procs[p].auth
           /\ procs[p].loaded \in {"paid", "failed", "expired"}
           /\ procs[p].pc # "done"
           /\ procs'[p].pc = "done")
          => procs'[p].res.code \in 200..299]_vars

Applied(code) ==
    \E p \in Procs : /\ applies[p].pc = "done"
                     /\ applies[p].res.code = 200
                     /\ applies[p].code = code

\* C18: after any interleaving of coupon apply requests, a coupon's usedCount
\* never exceeds its usageLimit and no user is recorded in usedBy more than
\* userLimit times.
C18_CouponLimitsHold ==
    \A code \in StoredCodes :
        Applied(code) =>
            /\ coupons[code].usedCount <= coupons[code].usageLimit
            /\ \A user \in Users :
                   UserUsage(coupons[code], user) <= coupons[code].userLimit

\* C19: a PaymentIntent's merchantOrderId is assigned at most once: once it
\* is set, no later create-order or check-status call changes it.
C19_MerchantOrderIdAssignedOnce ==
    [][\A i \in Persisted :
          intents[i].merchantOrderId # NoId
          => intents'[i].merchantOrderId = intents[i].merchantOrderId]_vars

IsPrefix(s, t) == /\ Len(s) <= Len(t)
                  /\ SubSeq(t, 1, Len(s)) = s

\* C20: the attempts sequence of an intent only grows: every step, also of
\* create-order calls that overlap on the same intent, keeps the recorded
\* attempts unchanged and in order and adds new records only at the end.
C20_AttemptsAppendOnly ==
    [][\A i \in Persisted : IsPrefix(intents[i].attempts, intents'[i].attempts)]_vars

\* Two create-order calls on the same intent overlapped and both stored
\* their attempt: the merchantOrderId that stays is the older one, which
\* calls that run one after the other never leave
C20_Witness ==
    \E i \in Persisted :
        /\ \A p \in Procs : /\ procs[p].kind = "create-order"
                            /\ procs[p].pc = "done"
                            /\ procs[p].iid = i
                            /\ procs[p].res.code = 200
        /\ Len(intents[i].attempts) = 2
        /\ intents[i].merchantOrderId = 1
        /\ clock = 2

\* The create-order request of slot p, which reached the gateway call,
\* ends with this step
CreateOrderEnds(p) ==
    /\ procs[p].kind = "create-order"
    /\ procs[p].pc \in {"co_gateway", "co_save_attempt"}
    /\ procs'[p].pc = "done"

\* C21: every create-order call that reaches the gateway call appends
\* exactly one attempt record to the intent, whether the gateway
\* acknowledges, rejects, answers with a malformed response or cannot be
\* reached.
C21_AttemptPerGatewayCall ==
    [][\A p \in Procs :
          CreateOrderEnds(p)
          => Len(intents'[procs[p].iid].attempts)
                 = Len(intents[procs[p].iid].attempts) + 1]_vars

\* C22: create-order sets the status to initiated only after a well-formed
\* acknowledgment: a call on a pending intent that ends after a gateway
\* error or a response without the acknowledgment data leaves the status
\* different from initiated.
C22_InitiatedOnlyOnAck ==
    [][\A p \in Procs :
          (/\ CreateOrderEnds(p)
           /\ procs[p].state # "ack"
           /\ intents[procs[p].iid].status = "pending")
          => intents'[procs[p].iid].status # "initiated"]_vars

\* C23: every PaymentIntent is created with status pending, an empty
\* attempts list and stockAdjusted = false, whichever creation endpoint
\* produced it.
C23_CreatedPending ==
    [][\A i \in IntentIds :
          (intents[i] = NoIntent /\ intents'[i] # NoIntent)
          => /\ intents'[i].status = "pending"
             /\ intents'[i].attempts = << >>
             /\ intents'[i].stockAdjusted = FALSE]_vars

\* C24: after an intent is created its totals snapshot is never modified by
\* a later operation, and no value a client supplies in a later request
\* (such as a coupon code sent to create-order) alters it.
C24_TotalsNeverChange ==
    [][\A i \in Persisted : intents'[i].totals = intents[i].totals]_vars

\* The payment requests sent for an intent and the attempts recorded on it
\* carry the totalPaise the intent holds
AmountsAreTotalPaise(i) ==
    /\ \A t \in gateway :
           t.intentId = i => t.amount = intents[i].totals.totalPaise
    /\ \A k \in 1..Len(intents[i].attempts) :
           intents[i].attempts[k].amountPaise = intents[i].totals.totalPaise

\* C25: the amount of every gateway create-transaction request, and the
\* amountPaise of the attempt it produces, equals the totalPaise stored in
\* the intent at creation: they equal the stored totalPaise, and that is
\* the one of creation because it never changes.
C25_AmountIsCreationTotalPaise ==
    /\ [](\A i \in Persisted : AmountsAreTotalPaise(i))
    /\ [][\A i \in Persisted :
             intents'[i].totals.totalPaise = intents[i].totals.totalPaise]_vars

\* The request of slot p is about to insert an Order for an intent that
\* another request gave one in the meantime
LosesInsertRace(p) ==
    /\ procs[p].pc \in {"wh_insert", "cb_insert", "svc_insert"}
    /\ OrdersOfIntent(procs[p].iid) # {}
    /\ procs'[p] # procs[p]

\* C26: when paid-transitions race to insert the Order of one intent, one
\* insert succeeds; a loser inserts nothing, carries on with the winner's
\* order and ends successfully rather than with an error.
C26_InsertRaceHasOneWinner ==
    [][\A p \in Procs :
          LosesInsertRace(p)
          => /\ orders' = orders
             /\ procs'[p].pc = "done" => procs'[p].res.code = 200]_vars

\* Slot p runs createOrderFromIntent and has inserted the Order
Materializing(p) ==
    /\ procs[p].path = "new"
    /\ procs[p].pc \in {"svc_bulk", "svc_sync", "svc_sync_save", "svc_flag",
                        "svc_ship", "svc_email", "cs_flag"}

\* C27: a failure of the stock decrement, of the shipping push or of the
\* confirmation email never makes createOrderFromIntent fail: every step
\* after the insert keeps the Order and the request ends with it, while a
\* refused insert ends the request without an Order.
C27_OnlyInsertIsFatal ==
    [][\A p \in Procs :
          /\ (Materializing(p) /\ procs'[p] # procs[p])
             => /\ Len(orders') = Len(orders)
                /\ orders'[procs[p].ord].orderId = orders[procs[p].ord].orderId
                /\ procs'[p].pc = "done"
                   => /\ procs'[p].res.code = 200
                      /\ procs'[p].res.order = procs[p].ord
          /\ ServiceInsert(p, FALSE)
             => /\ procs'[p].pc = "done"
                /\ procs'[p].res.order = 0
                /\ orders' = orders]_vars

\* createOrderFromIntent returned the Order it inserted although the stock
\* decrement, the shipping push and the email all failed
C27_Witness ==
    \E p \in Procs :
        /\ procs[p].kind = "check-status"
        /\ procs[p].pc = "done"
        /\ procs[p].res.order # 0
        /\ Len(orders) = 1
        /\ orders[procs[p].res.order].shipping \notin {"pushed"}
        /\ ~orders[procs[p].res.order].emailSent
        /\ orders[procs[p].res.order].orderItems # << >>
        /\ AllStock = [pid \in ProductIds |->
                          <<InitialCatalog[pid].stock,
                            [v \in DOMAIN InitialCatalog[pid].variants |->
                                InitialCatalog[pid].variants[v].stock]>>]

\* C28: when the shipping push fails during materialization, the persisted
\* Order afterwards has shipping status push_failed.
C28_PushFailureIsRecorded ==
    [][\A p \in Procs :
          (\E saved \in BOOLEAN : ServiceShip(p, FALSE, saved))
          => orders'[procs[p].ord].shipping = "push_failed"]_vars

\* C29: over any interleaving of materialization calls for one intent the
\* confirmation email is sent successfully at most once and the order is
\* pushed to the shipping partner at most once: no email is sent for an
\* intent that has an Order recorded as mailed, and no push succeeds for an
\* intent that has an Order recorded as pushed.
C29_SideEffectsAtMostOnce ==
    [][\A p \in Procs :
          /\ ServiceEmail(p, TRUE)
             => \A k \in OrdersOfIntent(procs[p].iid) : ~orders[k].emailSent
          /\ ServiceShip(p, TRUE, TRUE)
             => \A k \in OrdersOfIntent(procs[p].iid) : orders[k].shipping # "pushed"]_vars

AdjustingStock == {"svc_bulk", "svc_sync", "svc_sync_save"}

\* The stock adjustment of the materialization in slot p ends with this step
\* after its decrement was written
StockAdjustmentCompletes(p) ==
    /\ procs[p].pc \in AdjustingStock
    /\ procs'[p].pc \notin AdjustingStock
    /\ ~ServiceBulkWriteFails(p)

\* The products of the order of slot p that are out of stock are inactive
SoldOutAreInactive(p) ==
    \A k \in 1..Len(procs[p].fitems) :
        LET pid == procs[p].fitems[k].product IN
        (pid \in DOMAIN products /\ TotalStock(products[pid]) = 0)
        => ~products[pid].isActive

C31_StockAdjustedMonotonic ==
    [][\A i \in Persisted :
          intents[i].stockAdjusted => intents'[i].stockAdjusted]_vars

\* The flag is stored as true while a request that loaded the intent before
\* holds a copy with the flag false and is about to save it
C31_Witness ==
    \E i \in Persisted : \E p \in Procs :
        /\ intents[i].stockAdjusted
        /\ procs[p].iid = i
        /\ procs[p].pc # "done"
        /\ procs[p].doc # NoIntent
        /\ ~procs[p].doc.stockAdjusted
        /\ procs[p].dirty # {}

\* C32: stockAdjusted is true only after the stock decrement for the intent's
\* items was applied: it is never true for an intent none of whose ordered
\* quantities were subtracted from stock.
\* Checked in the states where no request is in flight.
C32_FlagOnlyAfterDecrement ==
    (\A p \in Procs : Free(p)) =>
        \A i \in Persisted :
            intents[i].stockAdjusted =>
                \E pid \in ProductIds : UnitsOrdered(i, pid) > 0 /\ UnitsTaken(pid) > 0

\* C33: an Order that refers to a PaymentIntent exists only if that intent's
\* status is paid: in every reachable state the intent of each such Order
\* is paid, never pending, initiated, failed or expired.
C33_OrderOnlyForPaidIntent ==
    \A i \in Persisted :
        OrdersOfIntent(i) # {} => intents[i].status = "paid"

\* C34: an Order's status only moves forward along pending -> processing ->
\* shipped -> delivered, or to cancelled; in particular neither a repeated
\* payment confirmation nor an admin status update moves a shipped,
\* delivered or cancelled order back to processing or pending.
C34_OrderStatusMovesForward ==
    [][\A k \in OrderIds :
          orders[k].status \in {"shipped", "delivered", "cancelled"}
              => orders'[k].status \notin {"pending", "processing"}]_vars

\* C35: computeTotalsFromDb charges the flat shipping fee (99) when the
\* subtotal is below the free-shipping threshold (499) and charges 0 when
\* the subtotal is at or above the threshold.
C35_FreeShippingFromThreshold ==
    (lastTotals.code = 200 /\ lastTotals.op = "initiate-intent") =>
        Created.totals.shippingFee =
            IF Created.totals.subtotal < FreeShippingAbove THEN FlatShippingFee ELSE 0

\* C35, amended: the flat fee is charged when the subtotal is at or below
\* the threshold, and 0 when the subtotal is above it.
C35_FreeShippingAboveThreshold ==
    (lastTotals.code = 200 /\ lastTotals.op = "initiate-intent") =>
        Created.totals.shippingFee =
            IF Created.totals.subtotal <= FreeShippingAbove THEN FlatShippingFee ELSE 0

\* An intent was created for a subtotal equal to the threshold and pays the
\* flat fee
C35_Witness ==
    /\ lastTotals.code = 200
    /\ lastTotals.op = "initiate-intent"
    /\ Created.totals.subtotal = FreeShippingAbove
    /\ Created.totals.shippingFee = FlatShippingFee

\* C36: an intent is persisted only if its grand total, subtotal +
\* shippingFee + tax - discount, is strictly positive, and the stored
\* totalPaise equals the stored total times 100.
C36_StoredTotalsArePayable ==
    \A i \in Persisted :
        LET t == intents[i].totals IN
            /\ t.total = t.subtotal + t.shippingFee + t.tax - t.discountAmount
            /\ t.total > 0
            /\ t.totalPaise = t.total * 100

C38_SameVariantPricedAndDecremented ==
    \A k \in OrderIds :
        (orders[k].merchantOrderId # NoId /\ orders[k].intentId \in Persisted) =>
            \A j \in 1..Len(orders[k].orderItems) :
                \E l \in 1..Len(intents[orders[k].intentId].orderItems) :
                    LET line == intents[orders[k].intentId].orderItems[l]
                        item == orders[k].orderItems[j]
                    IN  /\ line.productId = item.product
                        /\ line.quantity = item.quantity
                        /\ line.variant = item.variant

\* Units of a product the orders in the given statuses order
UnitsInOrders(pid, statuses) ==
    SumOver([k \in OrderIds |->
                IF orders[k].status \in statuses
                THEN SumOver([j \in 1..Len(orders[k].orderItems) |->
                                 IF orders[k].orderItems[j].product = pid
                                 THEN orders[k].orderItems[j].quantity ELSE 0],
                             1..Len(orders[k].orderItems))
                ELSE 0],
            OrderIds)

\* C39: cancelling an order sets its status to cancelled and gives the
\* ordered quantity back to the stock exactly once; a second cancel of the
\* same order, sequential or concurrent, restores nothing again: once no
\* cancel request is in flight, the units missing from the stock of a
\* product are those of its orders that are not cancelled.
C39_CancelRestoresOnce ==
    (\A p \in Procs : procs[p].pc \in {"idle", "done"}) =>
        \A pid \in ProductIds :
            UnitsTaken(pid) = UnitsInOrders(pid, OrderStatuses \ {"cancelled"})

=============================================================================
